---- MODULE Spec2Model ----
(***************************************************************************)
(* A model of the floorplan visibility service:                            *)
(*   - SVGFloorplanProcessor (src/SVGFloorplanProcessor.py): the path      *)
(*     decoder and the obstacle extractor (import_svg, clean_svg);         *)
(*   - the request handlers of src/app.py: allocentric visibility and the  *)
(*     visibility heatmap, with is_point_in_polygon and get_heatmap_color; *)
(*   - the process (src/visibility_module.py and the top of src/app.py):   *)
(*     get_visibility_module() run by threads, the import of app.py, and   *)
(*     the import and visibility-polygon routes;                           *)
(*   - the lifecycle of one processor over several drawings: import_svg,   *)
(*     clean_svg, convert_to_geojson (of the GeoJSON only the features),   *)
(*     save_svg, create_preview_svg and export_to_geojson, with the calls  *)
(*     that raise; the files the last three write are not modelled.        *)
(*                                                                         *)
(* The handlers serve once app.py has been imported (app_state =           *)
(* "serving").  Definitions that only do arithmetic on naturals of any     *)
(* size (Big...) or only name a group of variables model no line of the    *)
(* source.                                                                 *)
(*                                                                         *)
(* The geometry oracle (the compiled visibility_polygon module) is         *)
(* external: a query either raises or returns some polygon of VisPool.     *)
(*                                                                         *)
(* Numbers.  Obstacle coordinates and canvas sizes are integers; the grid   *)
(* resolution is a JSON number <<num, den>>, whole (den = 1) or            *)
(* fractional.  Python computes with IEEE doubles.  The grid dimensions    *)
(* and the corners of the emitted cells are computed here as Python        *)
(* computes them, in binary64 (see "Python floats" below).  Scores and     *)
(* colours are computed in exact arithmetic: a quotient is kept as an      *)
(* exact fraction <<num, den>> and a grid-cell centre in units of          *)
(* 1 / (2 * den); for the inputs of the model no centre lies within        *)
(* rounding distance of a polygon edge, so containment is the same in      *)
(* both arithmetics.  In get_heatmap_color the double result can differ    *)
(* from the exact one in int(t * k) when t * k is an integer and the       *)
(* normalized value is not a dyadic fraction (1/3 gives 84 where exact     *)
(* arithmetic gives 85); at the bucket boundaries 1/4, 1/2 and 3/4 and on  *)
(* every k/2^n the two agree.                                              *)
(***************************************************************************)
EXTENDS Integers, Sequences, FiniteSets, TLC

(***************************************************************************)
(* Bounds of the model.                                                    *)
(***************************************************************************)
MaxObstacles == 3
MaxCanvas == 3
ColorSteps == 32
MaxGroups == 4
MaxPaths == 2
MaxTestCoord == 9
MaxVertices == 5
MaxCommands == 3
MaxThreads == 2

(***************************************************************************)
(* Python values.                                                          *)
(***************************************************************************)
None == "None"

SeqsUpTo(S, n) == UNION {[1..k -> S] : k \in 0..n}

Max(S) == CHOOSE m \in S : \A n \in S : n <= m

(***************************************************************************)
(* Request inputs.  An obstacle is its 'points' list; ObstaclePool holds a *)
(* room outline, an object and a two-point (degenerate) obstacle.          *)
(* VisPool holds the polygons the oracle may return.                       *)
(***************************************************************************)
RoomPoints == <<<<0, 0>>, <<4, 0>>, <<4, 4>>, <<0, 4>>>>
BoxPoints == <<<<1, 1>>, <<2, 1>>, <<2, 2>>>>
SegmentPoints == <<<<3, 3>>, <<3, 4>>>>
ObstaclePool == {RoomPoints, BoxPoints, SegmentPoints}

VisPool ==
    { <<<<0, 0>>, <<16, 0>>, <<16, 16>>, <<0, 16>>>>,
      <<<<0, 1>>, <<2, 1>>, <<2, 4>>, <<0, 4>>>>,
      <<<<0, 0>>, <<4, 0>>, <<0, 4>>>> }

\* A JSON number num / den is <<num, den>>; a whole number has den = 1.
Whole(n) == <<n, 1>>

IsWhole(q) == q[2] = 1

CanvasSizes == 1..MaxCanvas
GridResolutions == {Whole(n) : n \in 0..(MaxCanvas + 1)}

\* <<canvasWidth, canvasHeight, gridResolution>> of requests with a
\* fractional resolution: 0.5, 0.7 and 1.3.
FractionalGrids == {<<1, 1, <<5, 10>>>>, <<2, 1, <<7, 10>>>>, <<13, 2, <<13, 10>>>>}

HeatmapGrids == (CanvasSizes \X CanvasSizes \X GridResolutions) \cup FractionalGrids

(***************************************************************************)
(* app.py: helpers shared by the visibility handlers.                      *)
(***************************************************************************)
\* obstacle_polygons: the supplied obstacles that have at least 3 points.
valid_polygons(obstacles) == SelectSeq(obstacles, LAMBDA points : Len(points) >= 3)

\* [obstacle_polygons[i] for i in range(len(obstacle_polygons)) if i != idx]
\* (i and idx are Python's 0-based positions).
RECURSIVE modified_from(_, _, _)
modified_from(polygons, idx, i) ==
    IF i >= Len(polygons) THEN <<>>
    ELSE (IF i # idx THEN <<polygons[i + 1]>> ELSE <<>>)
         \o modified_from(polygons, idx, i + 1)

modified_obstacles(polygons, idx) == modified_from(polygons, idx, 0)

RECURSIVE SumCoord(_, _)
SumCoord(points, c) ==
    IF points = <<>> THEN 0 ELSE points[1][c] + SumCoord(Tail(points), c)

\* (sum(p[0]) / len(points), sum(p[1]) / len(points)), each an exact fraction.
centroid(points) ==
    << <<SumCoord(points, 1), Len(points)>>, <<SumCoord(points, 2), Len(points)>> >>

(***************************************************************************)
(* is_point_in_polygon(point, vertices): even-odd ray casting.  point2 is  *)
(* the test point in half units (2x, 2y); the edge test                    *)
(*   ((yi > y) != (yj > y)) and (x < (xj - xi) * (y - yi) / (yj - yi) + xi)*)
(* is multiplied through by 2 * (yj - yi), whose sign the first conjunct   *)
(* fixes.                                                                  *)
(***************************************************************************)
\* Variant whose y comparison is not strict; C11 must tell it apart.
edge_crosses_inclusive(point2, vi, vj) ==
    LET x2 == point2[1]
        y2 == point2[2]
        xi == vi[1]
        yi == vi[2]
        xj == vj[1]
        yj == vj[2]
    IN  /\ (2 * yi >= y2) # (2 * yj >= y2)
        /\ IF yj > yi
           THEN (x2 - 2 * xi) * (yj - yi) < (xj - xi) * (y2 - 2 * yi)
           ELSE (x2 - 2 * xi) * (yj - yi) > (xj - xi) * (y2 - 2 * yi)

edge_crosses(point2, vi, vj) ==
    LET x2 == point2[1]
        y2 == point2[2]
        xi == vi[1]
        yi == vi[2]
        xj == vj[1]
        yj == vj[2]
    IN  /\ (2 * yi > y2) # (2 * yj > y2)
        /\ IF yj > yi
           THEN (x2 - 2 * xi) * (yj - yi) < (xj - xi) * (y2 - 2 * yi)
           ELSE (x2 - 2 * xi) * (yj - yi) > (xj - xi) * (y2 - 2 * yi)

\* The iterations i of 'for i in range(len(vertices))' (1-based) that flip
\* 'inside'; j is the vertex before i, the last one for the first i.
crossing_edges(point2, vertices) ==
    LET n == Len(vertices)
        prev(i) == IF i = 1 THEN n ELSE i - 1
    IN  {i \in 1..n : edge_crosses(point2, vertices[i], vertices[prev(i)])}

is_point_in_polygon(point2, vertices) ==
    Cardinality(crossing_edges(point2, vertices)) % 2 = 1

(***************************************************************************)
(* Python floats (IEEE-754 binary64, round to nearest, ties to even) for   *)
(* the non-negative values the grid code computes.  A float is held        *)
(* exactly, as the natural number of units of 2^-60 it is worth, written   *)
(* in base 2^15 with the least significant limb first (<<>> is 0.0): the   *)
(* first four limbs are the fraction, the others the integer part.  Every  *)
(* double between 2^-7 and 2^15 is such a number.  An operation is the     *)
(* exact result rounded to 53 significant bits.                            *)
(***************************************************************************)
LimbBase == 2^15

Limb(a, i) == IF i <= Len(a) THEN a[i] ELSE 0

RECURSIVE BigNorm(_)
BigNorm(a) ==
    IF a = <<>> \/ a[Len(a)] # 0 THEN a ELSE BigNorm(SubSeq(a, 1, Len(a) - 1))

RECURSIVE BigFromInt(_)
BigFromInt(n) ==
    IF n = 0 THEN <<>> ELSE <<n % LimbBase>> \o BigFromInt(n \div LimbBase)

RECURSIVE BigToInt(_)
BigToInt(a) == IF a = <<>> THEN 0 ELSE a[1] + LimbBase * BigToInt(Tail(a))

\* -1, 0 or 1 as a < b, a = b or a > b (limbs i down to 1 still to compare).
RECURSIVE BigCmpFrom(_, _, _)
BigCmpFrom(a, b, i) ==
    IF i = 0 THEN 0
    ELSE IF Limb(a, i) < Limb(b, i) THEN -1
    ELSE IF Limb(a, i) > Limb(b, i) THEN 1
    ELSE BigCmpFrom(a, b, i - 1)

BigCmp(a, b) == BigCmpFrom(a, b, IF Len(a) > Len(b) THEN Len(a) ELSE Len(b))

RECURSIVE BigAddFrom(_, _, _, _)
BigAddFrom(a, b, i, carry) ==
    IF i > Len(a) /\ i > Len(b) THEN BigFromInt(carry)
    ELSE LET sum == Limb(a, i) + Limb(b, i) + carry
         IN  <<sum % LimbBase>> \o BigAddFrom(a, b, i + 1, sum \div LimbBase)

BigAdd(a, b) == BigNorm(BigAddFrom(a, b, 1, 0))

\* a - b for a >= b.
RECURSIVE BigSubFrom(_, _, _, _)
BigSubFrom(a, b, i, borrow) ==
    IF i > Len(a) THEN <<>>
    ELSE LET diff == Limb(a, i) - Limb(b, i) - borrow
         IN  <<(diff + LimbBase) % LimbBase>>
             \o BigSubFrom(a, b, i + 1, IF diff < 0 THEN 1 ELSE 0)

BigSub(a, b) == BigNorm(BigSubFrom(a, b, 1, 0))

\* a * k for 0 <= k <= 2^15.
RECURSIVE BigMulFrom(_, _, _, _)
BigMulFrom(a, k, i, carry) ==
    IF i > Len(a) THEN BigFromInt(carry)
    ELSE LET prod == a[i] * k + carry
         IN  <<prod % LimbBase>> \o BigMulFrom(a, k, i + 1, prod \div LimbBase)

BigMulSmall(a, k) == BigNorm(BigMulFrom(a, k, 1, 0))

\* a \div k for 0 < k <= 2^14 (limbs i down to 1 still to divide).
RECURSIVE BigDivSmallFrom(_, _, _, _)
BigDivSmallFrom(a, k, i, rem) ==
    IF i = 0 THEN <<>>
    ELSE LET cur == rem * LimbBase + a[i]
         IN  BigDivSmallFrom(a, k, i - 1, cur % k) \o <<cur \div k>>

BigDivSmall(a, k) == BigNorm(BigDivSmallFrom(a, k, Len(a), 0))

RECURSIVE BitLength(_)
BitLength(n) == IF n = 0 THEN 0 ELSE 1 + BitLength(n \div 2)

BigBitLength(a) == IF a = <<>> THEN 0 ELSE 15 * (Len(a) - 1) + BitLength(a[Len(a)])

\* Bit i of a (bit 0 is the least significant).
BigBit(a, i) == (Limb(a, (i \div 15) + 1) \div 2^(i % 15)) % 2

BigShiftLeft(a, k) ==
    IF a = <<>> THEN <<>>
    ELSE [j \in 1..(k \div 15) |-> 0] \o BigMulSmall(a, 2^(k % 15))

BigShiftRight(a, k) ==
    BigDivSmall(SubSeq(a, (k \div 15) + 1, Len(a)), 2^(k % 15))

\* The largest g in lo..hi with d * g <= r (d * lo <= r holds).
RECURSIVE QuotientDigit(_, _, _, _)
QuotientDigit(r, d, lo, hi) ==
    IF lo = hi THEN lo
    ELSE LET mid == (lo + hi + 1) \div 2
         IN  IF BigCmp(BigMulSmall(d, mid), r) <= 0
             THEN QuotientDigit(r, d, mid, hi)
             ELSE QuotientDigit(r, d, lo, mid - 1)

\* Long division, limb by limb: <<n \div d, n % d>> once the limbs i down
\* to 1 of n have been brought down to the remainder r.
RECURSIVE BigDivModFrom(_, _, _, _, _)
BigDivModFrom(n, d, i, q, r) ==
    IF i = 0 THEN <<BigNorm(q), r>>
    ELSE LET r2 == BigNorm(<<n[i]>> \o r)
             g == QuotientDigit(r2, d, 0, LimbBase - 1)
         IN  BigDivModFrom(n, d, i - 1, <<g>> \o q, BigSub(r2, BigMulSmall(d, g)))

BigDivMod(n, d) == BigDivModFrom(n, d, Len(n), <<>>, <<>>)

\* Are the k least significant bits of a all 0?
RECURSIVE LowBitsZero(_, _)
LowBitsZero(a, k) == k = 0 \/ (BigBit(a, k - 1) = 0 /\ LowBitsZero(a, k - 1))

\* The double nearest to a (+ a fraction of a unit when inexact), ties to
\* even.  With inexact, a has more than 54 bits.
RoundToDouble(a, inexact) ==
    LET drop == BigBitLength(a) - 53
    IN  IF drop <= 0 THEN a
        ELSE LET kept == BigShiftRight(a, drop)
                 half == BigBit(a, drop - 1) = 1
                 sticky == inexact \/ ~LowBitsZero(a, drop - 1)
                 odd == BigBit(kept, 0) = 1
             IN  BigShiftLeft(IF half /\ (sticky \/ odd)
                              THEN BigAdd(kept, <<1>>) ELSE kept,
                              drop)

\* float(n) for a small non-negative int n (exact).
float_of_int(n) == BigShiftLeft(BigFromInt(n), 60)

\* x / y for floats x, y > 0.
float_truediv(x, y) ==
    LET qr == BigDivMod(BigShiftLeft(x, 60), y)
    IN  RoundToDouble(qr[1], qr[2] # <<>>)

\* The float a JSON number num / den (0 < den <= 2^14) is read as.
float_of_json(q) ==
    LET n == float_of_int(q[1])
        quotient == BigDivSmall(n, q[2])
    IN  RoundToDouble(quotient, BigMulSmall(quotient, q[2]) # n)

\* k * x for an int k (0 <= k <= 2^15) and a float x.
float_mul_int(k, x) == RoundToDouble(BigMulSmall(x, k), FALSE)

float_add(x, y) == RoundToDouble(BigAdd(x, y), FALSE)

\* int(x): truncation.
int_of_float(x) == BigToInt(SubSeq(x, 5, Len(x)))

\* x <= n, x >= n for a float x and a non-negative int n.
float_le_int(x, n) == BigCmp(x, float_of_int(n)) <= 0

float_ge_int(x, n) == BigCmp(x, float_of_int(n)) >= 0

(***************************************************************************)
(* get_heatmap_color(normalized_value), normalized_value = num / den.      *)
(* RampColor(bucket, tnum, tden) is the branch of the given bucket at      *)
(* t = tnum / tden; the 'rgba(r, g, b, a)' string is the tuple <<r,g,b,a>>.*)
(***************************************************************************)
\* Variant of the ramp whose first bucket runs to full green (cyan) at its
\* upper end; C10 must tell it from the ramp of the code.
RampColor_cyan(bucket, tnum, tden) ==
    CASE bucket = 1 -> <<0, (tnum * 255) \div tden, 255, 150>>
      [] bucket = 2 -> <<0, 128 + ((tnum * 127) \div tden),
                         255 - ((tnum * 255) \div tden), 150>>
      [] bucket = 3 -> <<(tnum * 255) \div tden, 255, 0, 150>>
      [] bucket = 4 -> <<255, 255 - ((tnum * 255) \div tden), 0, 150>>

RampColor(bucket, tnum, tden) ==
    CASE bucket = 1 -> <<0, (tnum * 128) \div tden, 255, 150>>
      [] bucket = 2 -> <<0, 128 + ((tnum * 127) \div tden),
                         255 - ((tnum * 255) \div tden), 150>>
      [] bucket = 3 -> <<(tnum * 255) \div tden, 255, 0, 150>>
      [] bucket = 4 -> <<255, 255 - ((tnum * 255) \div tden), 0, 150>>

get_heatmap_color(num, den) ==
    IF num <= 0 THEN <<0, 0, 0, 0>>
    ELSE IF 4 * num <= den THEN RampColor(1, 4 * num, den)
    ELSE IF 4 * num <= 2 * den THEN RampColor(2, 4 * num - den, den)
    ELSE IF 4 * num <= 3 * den THEN RampColor(3, 4 * num - 2 * den, den)
    ELSE RampColor(4, 4 * num - 3 * den, den)

(***************************************************************************)
(* State.                                                                  *)
(*                                                                         *)
(* compute_visibility_heatmap (request scoped, nothing outlives a request):*)
(*   hm_pc            "idle" | "loop" (inside 'for center_idx ...') | "done"*)
(*   hm_request       the JSON body of the request being handled           *)
(*   obstacle_polygons, object_centers, object_indices, square_size,       *)
(*   grid_scores, center_idx  the handler's locals of those names          *)
(*   visibility_results  the polygons the oracle returned so far           *)
(*   hm_oracle_calls  the arguments of every compute_visibility_polygon    *)
(*                    call the handler made                                *)
(*   hm_response      the JSON response                                    *)
(***************************************************************************)
VARIABLES hm_pc, hm_request, obstacle_polygons, object_centers, object_indices,
          square_size, grid_scores, center_idx, visibility_results,
          hm_oracle_calls, hm_response

(***************************************************************************)
(* compute_allocentric_visibility.  The handler has no loop; one action is *)
(* the whole handler.                                                      *)
(*   al_pc            "idle" | "done"                                      *)
(*   al_request       the JSON body of the request                         *)
(*   al_oracle_calls  the oracle calls the handler made, in order          *)
(*   al_response      the JSON response                                    *)
(***************************************************************************)
VARIABLES al_pc, al_request, al_oracle_calls, al_response

(***************************************************************************)
(* get_heatmap_color applied to the values k / (4 * ColorSteps).           *)
(*   color_value   the normalized value <<num, den>> last converted        *)
(*   color_result  its colour                                              *)
(***************************************************************************)
VARIABLES color_value, color_result

(***************************************************************************)
(* SVGFloorplanProcessor and the drawing it reads.                         *)
(*   svg_file    the drawing on disk: its path elements in document order, *)
(*               each with the command groups of its 'd' attribute and its *)
(*               parent element                                            *)
(*   tree        self.tree / self.root: the parsed drawing (its path       *)
(*               elements, whose 'd' clean_svg rewrites)                   *)
(*   geometries  self.geometries                                           *)
(*   geojson_data  self.geojson_data                                       *)
(*   viewbox     self.viewbox                                              *)
(*   last_call   the method that returned last on the processor, None      *)
(*               before any                                                *)
(*   call_result the latest call of a method and how it ended: it returned *)
(*               self or raised an exception                               *)
(***************************************************************************)
VARIABLES svg_file, tree, geometries, geojson_data, viewbox, last_call, call_result

(***************************************************************************)
(* is_point_in_polygon applied to a point and a polygon.                   *)
(*   pip_point     the test point last classified, in half units           *)
(*   pip_vertices  the polygon it was tested against                       *)
(*   pip_flips     the loop iterations that flipped 'inside'               *)
(*   pip_inside    the value returned                                      *)
(***************************************************************************)
VARIABLES pip_point, pip_vertices, pip_flips, pip_inside

(***************************************************************************)
(* _parse_path_to_points applied to a path string.                         *)
(*   dec_pc       "idle" | "done" (the call has returned)                  *)
(*   dec_path     the path_string of the call                              *)
(*   dec_states   points, current_x and current_y before the first         *)
(*                command and after each command of the loop               *)
(*   dec_emitted  'points' when the loop over the commands has ended       *)
(*   dec_points   the value returned (cleaned_points)                      *)
(***************************************************************************)
VARIABLES dec_pc, dec_path, dec_states, dec_emitted, dec_points

(***************************************************************************)
(* The process: visibility_module.py's singleton and app.py's import.      *)
(*   _visibility_module  the module global of visibility_module.py         *)
(*   gvm_pc       per thread, its position in get_visibility_module():     *)
(*                "idle" | "test" (at line 107) | "construct" (in          *)
(*                VisibilityModule()) | "assign" (about to store the       *)
(*                global) | "return" (at line 109)                         *)
(*   gvm_local    per thread, the VisibilityModule it has constructed      *)
(*   loads        the number of VisibilityModule objects constructed       *)
(*   handles_returned  every value a get_visibility_module() call returned *)
(*   app_state    "not_imported" | "importing" (app.py runs line 14) |     *)
(*                "serving" (app.py imported, routes registered) |         *)
(*                "failed" (the import of app.py raised)                   *)
(*   VIS_MODULE   app.py's global of that name                             *)
(*   rq_pc, rq_op, rq_response  a client request to the process: "idle" |  *)
(*                "done", the operation asked for and what the client got  *)
(***************************************************************************)
VARIABLES _visibility_module, gvm_pc, gvm_local, loads, handles_returned,
          app_state, VIS_MODULE, rq_pc, rq_op, rq_response

hm_vars == <<hm_pc, hm_request, obstacle_polygons, object_centers, object_indices,
             square_size, grid_scores, center_idx, visibility_results,
             hm_oracle_calls, hm_response>>

al_vars == <<al_pc, al_request, al_oracle_calls, al_response>>

color_vars == <<color_value, color_result>>

proc_vars == <<svg_file, tree, geometries, geojson_data, viewbox, last_call,
              call_result>>

pip_vars == <<pip_point, pip_vertices, pip_flips, pip_inside>>

dec_vars == <<dec_pc, dec_path, dec_states, dec_emitted, dec_points>>

app_vars == <<_visibility_module, gvm_pc, gvm_local, loads, handles_returned,
              app_state, VIS_MODULE, rq_pc, rq_op, rq_response>>

vars == <<hm_vars, al_vars, color_vars, proc_vars, pip_vars, dec_vars, app_vars>>

\* What a part of the service leaves alone: the state of the other parts.
outside_heatmap == <<al_vars, color_vars, proc_vars, pip_vars, dec_vars, app_vars>>
outside_allocentric == <<hm_vars, color_vars, proc_vars, pip_vars, dec_vars, app_vars>>
outside_color == <<hm_vars, al_vars, proc_vars, pip_vars, dec_vars, app_vars>>
outside_processor == <<hm_vars, al_vars, color_vars, pip_vars, dec_vars, app_vars>>
outside_point_test == <<hm_vars, al_vars, color_vars, proc_vars, dec_vars, app_vars>>
outside_decoder == <<hm_vars, al_vars, color_vars, proc_vars, pip_vars, app_vars>>
outside_app == <<hm_vars, al_vars, color_vars, proc_vars, pip_vars, dec_vars>>

NoRequest == [op |-> "none"]
NoResponse == [status |-> "none"]
NoGrid == [created |-> FALSE]

ErrorResponse(code, message) == [status |-> "error", code |-> code, message |-> message]

(***************************************************************************)
(* The process.  get_visibility_module() is run by Threads; MainThread is  *)
(* the thread that imports app.py, whose line 14 is such a call.  The      *)
(* global interpreter lock lets threads switch between the test of line    *)
(* 107, the constructor call and the store of line 108, and the read of    *)
(* line 109.  Whether 'import visibility_polygon' finds the compiled       *)
(* module is decided at each attempt.                                      *)
(***************************************************************************)
Threads == 1..MaxThreads
MainThread == 1

NoModule == [loaded |-> FALSE]
Handle(id) == [loaded |-> TRUE, id |-> id]

Operations ==
    {"import", "visibility-polygon", "allocentric-visibility", "visibility-heatmap"}

AppInit ==
    /\ _visibility_module = NoModule
    /\ gvm_pc = [t \in Threads |-> "idle"]
    /\ gvm_local = [t \in Threads |-> NoModule]
    /\ loads = 0
    /\ handles_returned = {}
    /\ app_state = "not_imported"
    /\ VIS_MODULE = NoModule
    /\ rq_pc = "idle"
    /\ rq_op = None
    /\ rq_response = NoResponse

\* A thread calls get_visibility_module(); for MainThread this is line 14 of
\* app.py, reached once, when app.py is imported.
GvmCall(t) ==
    /\ gvm_pc[t] = "idle"
    /\ t = MainThread => app_state = "not_imported"
    /\ gvm_pc' = [gvm_pc EXCEPT ![t] = "test"]
    /\ app_state' = IF t = MainThread THEN "importing" ELSE app_state
    /\ UNCHANGED <<_visibility_module, gvm_local, loads, handles_returned,
                   VIS_MODULE, rq_pc, rq_op, rq_response>>
    /\ UNCHANGED outside_app

\* if _visibility_module is None:
GvmTest(t) ==
    /\ gvm_pc[t] = "test"
    /\ gvm_pc' = [gvm_pc EXCEPT ![t] =
                     IF _visibility_module = NoModule THEN "construct" ELSE "return"]
    /\ UNCHANGED <<_visibility_module, gvm_local, loads, handles_returned,
                   app_state, VIS_MODULE, rq_pc, rq_op, rq_response>>
    /\ UNCHANGED outside_app

\* VisibilityModule(): __init__ runs _load_module, which raises RuntimeError
\* when the compiled module cannot be imported.  The exception leaves
\* get_visibility_module, and on MainThread it ends the import of app.py.
GvmConstruct(t) ==
    /\ gvm_pc[t] = "construct"
    /\ \E importable \in BOOLEAN :
        IF importable
        THEN /\ loads' = loads + 1
             /\ gvm_local' = [gvm_local EXCEPT ![t] = Handle(loads + 1)]
             /\ gvm_pc' = [gvm_pc EXCEPT ![t] = "assign"]
             /\ UNCHANGED app_state
        ELSE /\ gvm_pc' = [gvm_pc EXCEPT ![t] = "idle"]
             /\ app_state' = IF t = MainThread THEN "failed" ELSE app_state
             /\ UNCHANGED <<loads, gvm_local>>
    /\ UNCHANGED <<_visibility_module, handles_returned, VIS_MODULE,
                   rq_pc, rq_op, rq_response>>
    /\ UNCHANGED outside_app

\* _visibility_module = <the object constructed>
GvmAssign(t) ==
    /\ gvm_pc[t] = "assign"
    /\ _visibility_module' = gvm_local[t]
    /\ gvm_local' = [gvm_local EXCEPT ![t] = NoModule]
    /\ gvm_pc' = [gvm_pc EXCEPT ![t] = "return"]
    /\ UNCHANGED <<loads, handles_returned, app_state, VIS_MODULE,
                   rq_pc, rq_op, rq_response>>
    /\ UNCHANGED outside_app

\* return _visibility_module; on MainThread the value becomes VIS_MODULE and
\* the rest of app.py (the routes) is executed.
GvmReturn(t) ==
    /\ gvm_pc[t] = "return"
    /\ gvm_pc' = [gvm_pc EXCEPT ![t] = "idle"]
    /\ handles_returned' = handles_returned \cup {_visibility_module}
    /\ IF t = MainThread
       THEN /\ VIS_MODULE' = _visibility_module
            /\ app_state' = "serving"
       ELSE UNCHANGED <<VIS_MODULE, app_state>>
    /\ UNCHANGED <<_visibility_module, gvm_local, loads, rq_pc, rq_op, rq_response>>
    /\ UNCHANGED outside_app

\* The import of app.py up to the point where the routes are registered:
\* the steps of MainThread.
AppStartup ==
    \/ GvmCall(MainThread)
    \/ GvmTest(MainThread)
    \/ GvmConstruct(MainThread)
    \/ GvmAssign(MainThread)
    \/ GvmReturn(MainThread)

HeatmapInit ==
    /\ hm_pc = "idle"
    /\ hm_request = NoRequest
    /\ obstacle_polygons = <<>>
    /\ object_centers = <<>>
    /\ object_indices = <<>>
    /\ square_size = float_of_int(0)
    /\ grid_scores = NoGrid
    /\ center_idx = 0
    /\ visibility_results = <<>>
    /\ hm_oracle_calls = <<>>
    /\ hm_response = NoResponse

\* The obstacle-count check of the handler: len(obstacles) < 2 is rejected.
\* Variant that lets a single obstacle through; C4 must tell it apart.
too_few_obstacles_one(obstacles) == Len(obstacles) < 1

too_few_obstacles(obstacles) == Len(obstacles) < 2

\* int(canvas / square_size) for a positive canvas size, square_size being
\* float(grid_resolution) (a zero resolution raises before this is used).
\* For a whole resolution the double quotient of the two small integers
\* truncates to their integer quotient.
num_squares(canvas, grid_resolution, size) ==
    IF IsWhole(grid_resolution)
    THEN canvas \div grid_resolution[1]
    ELSE int_of_float(float_truediv(float_of_int(canvas), size))

\* The vertices in units of 1 / den.
scaled_vertices(vertices, den) ==
    [i \in DOMAIN vertices |-> <<den * vertices[i][1], den * vertices[i][2]>>]

\* Variant that tests the cell's top-left corner instead of its centre; C5
\* must tell it apart.
grid_center2_corner(gx, gy, grid_resolution) ==
    <<2 * gx * grid_resolution[1], 2 * gy * grid_resolution[1]>>

\* Centre of grid cell (gx, gy) (0-based),
\* (g * square_size) + (square_size / 2.0), in units of 1 / (2 * den) of the
\* resolution num / den.
grid_center2(gx, gy, grid_resolution) ==
    <<(2 * gx + 1) * grid_resolution[1], (2 * gy + 1) * grid_resolution[1]>>

\* Variant that adds 2 for a cell seen from a viewpoint; C6 must tell it
\* apart.
scan_polygon_twice(cells, grid_resolution, visibility_points) ==
    [r \in DOMAIN cells |->
        [c \in DOMAIN cells[r] |->
            IF is_point_in_polygon(<<(2 * c - 1) * grid_resolution[1],
                                     (2 * r - 1) * grid_resolution[1]>>,
                                   scaled_vertices(visibility_points,
                                                   grid_resolution[2]))
            THEN cells[r][c] + 2
            ELSE cells[r][c]]]

\* The grid after one visibility polygon has been scanned: every cell whose
\* centre is inside gets += 1.
scan_polygon(cells, grid_resolution, visibility_points) ==
    [r \in DOMAIN cells |->
        [c \in DOMAIN cells[r] |->
            IF is_point_in_polygon(grid_center2(c - 1, r - 1, grid_resolution),
                                   scaled_vertices(visibility_points,
                                                   grid_resolution[2]))
            THEN cells[r][c] + 1
            ELSE cells[r][c]]]

\* Variant that looks for the maximum in the first row only; C9 must tell it
\* apart.
grid_values_first_row(cells) == {cells[1][c] : c \in DOMAIN cells[1]}

grid_values(cells) == {cells[r][c] : r \in DOMAIN cells, c \in DOMAIN cells[1]}

\* One entry of heatmap_pixels for cell (gx, gy) (0-based); size is the
\* float square_size and the corners are floats.
heatmap_pixel(gx, gy, size, score, max_score) ==
    LET start_x == float_mul_int(gx, size)
        start_y == float_mul_int(gy, size)
        end_x == float_add(start_x, size)
        end_y == float_add(start_y, size)
    IN  [points |-> <<<<start_x, start_y>>, <<end_x, start_y>>,
                      <<end_x, end_y>>, <<start_x, end_y>>>>,
         score |-> score,
         normalized |-> IF max_score > 0 THEN <<score, max_score>> ELSE <<0, 1>>,
         color |-> IF max_score > 0 THEN get_heatmap_color(score, max_score)
                   ELSE get_heatmap_color(0, 1)]

\* Is cell k (row-major, 0-based) emitted?
\* Variant that also lists cells of score 0; C7 must tell it apart.
emits_cell_all(score) == score >= 0

emits_cell(score) == score > 0

\* for gy in range(num_squares_y): for gx in range(num_squares_x): ...
RECURSIVE heatmap_pixels_from(_, _, _, _)
heatmap_pixels_from(cells, size, max_score, k) ==
    LET ny == Len(cells)
        nx == Len(cells[1])
        gy == k \div nx
        gx == k % nx
        score == cells[gy + 1][gx + 1]
    IN  IF k >= ny * nx THEN <<>>
        ELSE (IF emits_cell(score)
              THEN <<heatmap_pixel(gx, gy, size, score, max_score)>>
              ELSE <<>>)
             \o heatmap_pixels_from(cells, size, max_score, k + 1)

(***************************************************************************)
(* compute_visibility_heatmap, up to the viewpoint loop: read the request, *)
(* check the obstacle count, filter the obstacles, compute the object      *)
(* centres and create the grid.                                            *)
(***************************************************************************)
HeatmapStart ==
    /\ app_state = "serving"
    /\ hm_pc = "idle"
    /\ \E obstacles \in SeqsUpTo(ObstaclePool, MaxObstacles), grid \in HeatmapGrids :
        LET canvas_width == grid[1]
            canvas_height == grid[2]
            grid_resolution == grid[3]
            polygons == valid_polygons(obstacles)
            objects == Len(polygons) - 1
            size == IF IsWhole(grid_resolution)
                    THEN float_of_int(grid_resolution[1])
                    ELSE float_of_json(grid_resolution)
        IN  /\ hm_request' = [op |-> "heatmap", obstacles |-> obstacles,
                              canvasWidth |-> canvas_width,
                              canvasHeight |-> canvas_height,
                              gridResolution |-> grid_resolution]
            /\ IF too_few_obstacles(obstacles)
               THEN /\ hm_response' = ErrorResponse(400,
                            "Need at least 2 obstacles (boundary + objects)")
                    /\ hm_pc' = "done"
                    /\ UNCHANGED <<obstacle_polygons, object_centers,
                                   object_indices, square_size, grid_scores>>
               ELSE /\ obstacle_polygons' = polygons
                    /\ object_centers' =
                           [k \in 1..objects |-> centroid(polygons[k + 1])]
                    /\ object_indices' = [k \in 1..objects |-> k]
                    /\ square_size' = size
                    /\ IF grid_resolution[1] = 0
                       THEN /\ hm_response' = ErrorResponse(500, "ZeroDivisionError")
                            /\ hm_pc' = "done"
                            /\ UNCHANGED grid_scores
                       ELSE /\ grid_scores' =
                                   [created |-> TRUE,
                                    cells |->
                                      [r \in 1..num_squares(canvas_height,
                                                            grid_resolution, size) |->
                                        [c \in 1..num_squares(canvas_width,
                                                              grid_resolution, size) |-> 0]]]
                            /\ hm_pc' = "loop"
                            /\ UNCHANGED hm_response
    /\ UNCHANGED <<center_idx, visibility_results, hm_oracle_calls>>
    /\ UNCHANGED outside_heatmap

\* The arguments of the oracle call of the current loop iteration.
heatmap_query ==
    [viewpoint |-> object_centers[center_idx + 1],
     obstacles |-> modified_obstacles(obstacle_polygons,
                                      object_indices[center_idx + 1]),
     screen_width |-> hm_request.canvasWidth,
     screen_height |-> hm_request.canvasHeight]

(***************************************************************************)
(* One iteration of 'for center_idx, (center_x, center_y) in               *)
(* enumerate(object_centers)': query the oracle without the object's own   *)
(* polygon and scan the grid against the polygon it returns.               *)
(***************************************************************************)
HeatmapViewpoint ==
    /\ hm_pc = "loop"
    /\ center_idx < Len(object_centers)
    /\ \E visibility_points \in VisPool :
        /\ hm_oracle_calls' = Append(hm_oracle_calls, heatmap_query)
        /\ visibility_results' = Append(visibility_results, visibility_points)
        /\ grid_scores' = [grid_scores EXCEPT !.cells =
               scan_polygon(@, hm_request.gridResolution, visibility_points)]
    /\ center_idx' = center_idx + 1
    /\ UNCHANGED <<hm_pc, hm_request, obstacle_polygons, object_centers,
                   object_indices, square_size, hm_response>>
    /\ UNCHANGED outside_heatmap

HeatmapOracleFails_skip ==
    /\ hm_pc = "loop"
    /\ center_idx < Len(object_centers)
    /\ hm_oracle_calls' = Append(hm_oracle_calls, heatmap_query)
    /\ center_idx' = center_idx + 1
    /\ UNCHANGED <<hm_pc, hm_request, obstacle_polygons, object_centers,
                   object_indices, square_size, grid_scores, hm_response,
                   visibility_results>>
    /\ UNCHANGED outside_heatmap

\* The oracle call of an iteration raises: the handler's except clause
\* answers 500 and the loop is left.
HeatmapOracleFails ==
    /\ hm_pc = "loop"
    /\ center_idx < Len(object_centers)
    /\ hm_oracle_calls' = Append(hm_oracle_calls, heatmap_query)
    /\ hm_response' = ErrorResponse(500, "oracle")
    /\ hm_pc' = "done"
    /\ UNCHANGED <<hm_request, obstacle_polygons, object_centers, object_indices,
                   square_size, grid_scores, center_idx, visibility_results>>
    /\ UNCHANGED outside_heatmap

(***************************************************************************)
(* After the loop: max_score, heatmap_pixels and the response.  max() of   *)
(* an empty grid (no rows, or rows without columns) raises ValueError.     *)
(***************************************************************************)
HeatmapFinish ==
    /\ hm_pc = "loop"
    /\ center_idx = Len(object_centers)
    /\ LET cells == grid_scores.cells
       IN  IF Len(cells) = 0 \/ Len(cells[1]) = 0
           THEN hm_response' = ErrorResponse(500, "ValueError")
           ELSE LET max_score == Max(grid_values(cells))
                IN  hm_response' =
                        [status |-> "success",
                         pixels |-> heatmap_pixels_from(cells, square_size,
                                                        max_score, 0),
                         maxScore |-> max_score,
                         gridResolution |-> hm_request.gridResolution,
                         objectCenterCount |-> Len(object_centers)]
    /\ hm_pc' = "done"
    /\ UNCHANGED <<hm_request, obstacle_polygons, object_centers, object_indices,
                   square_size, grid_scores, center_idx, visibility_results,
                   hm_oracle_calls>>
    /\ UNCHANGED outside_heatmap

\* The response has been sent; the request's data is dropped.
HeatmapReturn ==
    /\ hm_pc = "done"
    /\ hm_pc' = "idle"
    /\ hm_request' = NoRequest
    /\ obstacle_polygons' = <<>>
    /\ object_centers' = <<>>
    /\ object_indices' = <<>>
    /\ square_size' = float_of_int(0)
    /\ grid_scores' = NoGrid
    /\ center_idx' = 0
    /\ visibility_results' = <<>>
    /\ hm_oracle_calls' = <<>>
    /\ hm_response' = NoResponse
    /\ UNCHANGED outside_heatmap

NextHeatmap ==
    \/ AppStartup
    \/ HeatmapStart
    \/ HeatmapViewpoint
    \/ HeatmapOracleFails
    \/ HeatmapFinish
    \/ HeatmapReturn

(***************************************************************************)
(* compute_allocentric_visibility.  The JSON body is a record that holds a *)
(* key only when the caller sent it (data.get(key) is None otherwise).     *)
(***************************************************************************)
AllocentricInit ==
    /\ al_pc = "idle"
    /\ al_request = NoRequest
    /\ al_oracle_calls = <<>>
    /\ al_response = NoResponse

EmptyDict == [k \in {} |-> 0]
FeatureCenters == {[x |-> 1, y |-> 1], [x |-> 1], [y |-> 1], EmptyDict}
ExcludeIndices == (-1)..MaxObstacles
ClipPool == {<<>>, <<<<1, 1>>, <<2, 1>>, <<1, 2>>>>}

\* sensitivity1 / sensitivity2 defaults (0.5, 0.3), in tenths.
Sensitivity1Tenths == 5
Sensitivity2Tenths == 3
VISIBILITY_VALUE_MULTIPLIER == 200
DETAIL_VISIBILITY_MULTIPLIER == 100
SQUARE_VISIBILITY_SCALE == 5
CircleSegments == 128

AllocentricBodies ==
    { [op |-> "allocentric", obstacles |-> obstacles, showSensitivity |-> show] @@ opt
        : obstacles \in SeqsUpTo(ObstaclePool, MaxObstacles),
          show \in BOOLEAN,
          opt \in {EmptyDict} \cup
                  {[featureCenter |-> fc] : fc \in FeatureCenters} \cup
                  {[excludeObstacleIndex |-> i] : i \in ExcludeIndices} \cup
                  {[featureCenter |-> fc, excludeObstacleIndex |-> i]
                      : fc \in FeatureCenters, i \in ExcludeIndices} }

\* not feature_center or 'x' not in feature_center or 'y' not in feature_center
invalid_feature_center(data) ==
    \/ "featureCenter" \notin DOMAIN data
    \/ DOMAIN data.featureCenter = {}
    \/ "x" \notin DOMAIN data.featureCenter
    \/ "y" \notin DOMAIN data.featureCenter

\* exclude_obstacle_index is None
no_exclude_index(data) == "excludeObstacleIndex" \notin DOMAIN data

\* The obstacle list handed to the oracle.
allocentric_obstacles(data) ==
    modified_obstacles(valid_polygons(data.obstacles), data.excludeObstacleIndex)

visibility_call(data) ==
    [fn |-> "compute_visibility_polygon",
     viewpoint |-> <<data.featureCenter.x, data.featureCenter.y>>,
     obstacles |-> allocentric_obstacles(data)]

clip_call(data, polygon, radius) ==
    [fn |-> "clip_circle_with_visibility_polygon",
     polygon |-> polygon,
     center |-> <<data.featureCenter.x, data.featureCenter.y>>,
     radius |-> radius,
     segments |-> CircleSegments]

\* sensitivity * MULTIPLIER * SQUARE_VISIBILITY_SCALE as an exact fraction.
clip_radius(tenths, multiplier) == <<tenths * multiplier * SQUARE_VISIBILITY_SCALE, 10>>

AllocentricRequest ==
    /\ app_state = "serving"
    /\ al_pc = "idle"
    /\ al_pc' = "done"
    /\ UNCHANGED outside_allocentric
    /\ \E data \in AllocentricBodies, oracle_ok \in BOOLEAN, clip_ok \in BOOLEAN,
       visibility_points \in VisPool, clipped1 \in ClipPool, clipped2 \in ClipPool :
        /\ al_request' = data
        /\ IF invalid_feature_center(data)
           THEN /\ al_response' = ErrorResponse(400, "Invalid feature center")
                /\ al_oracle_calls' = <<>>
           ELSE IF no_exclude_index(data)
           THEN /\ al_response' = ErrorResponse(400, "No obstacle index provided")
                /\ al_oracle_calls' = <<>>
           ELSE IF ~oracle_ok
           THEN /\ al_response' = ErrorResponse(500, "oracle")
                /\ al_oracle_calls' = <<visibility_call(data)>>
           ELSE LET radius1 == clip_radius(Sensitivity1Tenths, VISIBILITY_VALUE_MULTIPLIER)
                    radius2 == clip_radius(Sensitivity2Tenths, DETAIL_VISIBILITY_MULTIPLIER)
                    base == [status |-> "success",
                             allocentricPolygon |-> visibility_points,
                             featureCenter |-> data.featureCenter,
                             excludedObstacleIndex |-> data.excludeObstacleIndex]
                IN  IF ~data.showSensitivity
                    THEN /\ al_response' = base
                         /\ al_oracle_calls' = <<visibility_call(data)>>
                    ELSE IF ~clip_ok
                    THEN /\ al_response' = ErrorResponse(500, "oracle")
                         /\ al_oracle_calls' =
                                <<visibility_call(data),
                                  clip_call(data, visibility_points, radius1)>>
                    ELSE /\ al_response' =
                                base @@ [clippedPolygon1 |-> clipped1,
                                         clippedPolygon2 |-> clipped2,
                                         radius1 |-> radius1,
                                         radius2 |-> radius2]
                         /\ al_oracle_calls' =
                                <<visibility_call(data),
                                  clip_call(data, visibility_points, radius1),
                                  clip_call(data, visibility_points, radius2)>>

\* The response has been sent; the request's data is dropped.
AllocentricReturn ==
    /\ al_pc = "done"
    /\ al_pc' = "idle"
    /\ al_request' = NoRequest
    /\ al_oracle_calls' = <<>>
    /\ al_response' = NoResponse
    /\ UNCHANGED outside_allocentric

NextAllocentric ==
    \/ AppStartup
    \/ AllocentricRequest
    \/ AllocentricReturn

(***************************************************************************)
(* Path descriptions.  A 'd' attribute is a sequence of tokens: a command  *)
(* letter [cmd |-> "M"], a number [num |-> 2] (what the regex              *)
(* -?\d+\.?\d* matches, as float() reads it) or other text [junk |-> "?"]  *)
(* that neither regex matches; separators are not tokens.  A drawing is    *)
(* written group by group: CommandGroups are the pieces a drawing tool     *)
(* appends to a path description.                                          *)
(***************************************************************************)
Cmd(c) == [cmd |-> c]
Num(v) == [num |-> v]
Junk == [junk |-> "?"]

IsCmd(tok) == "cmd" \in DOMAIN tok
IsNum(tok) == "num" \in DOMAIN tok

CommandGroups ==
    { <<Cmd("M"), Num(1), Num(1)>>,
      <<Cmd("L"), Num(2), Num(0), Num(2), Num(2)>>,
      <<Cmd("m"), Num(1), Num(1), Num(1), Num(0), Num(0), Num(1)>>,
      <<Cmd("L"), Num(1), Num(1), Cmd("Z")>> }

ParentElements == {[tag |-> "g", id |-> "walls"], [tag |-> "svg"]}

RECURSIVE Flatten(_)
Flatten(groups) ==
    IF groups = <<>> THEN <<>> ELSE groups[1] \o Flatten(Tail(groups))

(***************************************************************************)
(* _parse_path_to_points                                                   *)
(***************************************************************************)
\* The number of tokens at the head of s that are not command letters.
RECURSIVE payload_length(_)
payload_length(s) ==
    IF s = <<>> \/ IsCmd(s[1]) THEN 0 ELSE 1 + payload_length(Tail(s))

\* re.findall(r'-?\d+\.?\d*', coords), each float()ed
RECURSIVE numbers_of(_)
numbers_of(coords) ==
    IF coords = <<>> THEN <<>>
    ELSE (IF IsNum(coords[1]) THEN <<coords[1].num>> ELSE <<>>)
         \o numbers_of(Tail(coords))

\* re.findall(r'[MmLlHhVvZz][^MmLlHhVvZz]*', path_string): each command
\* letter with the text up to the next one; text before the first is dropped.
RECURSIVE find_commands(_)
find_commands(path_string) ==
    IF path_string = <<>> THEN <<>>
    ELSE IF ~IsCmd(path_string[1]) THEN find_commands(Tail(path_string))
    ELSE LET n == payload_length(Tail(path_string))
         IN  <<[cmd_type |-> path_string[1].cmd,
                numbers |-> numbers_of(SubSeq(path_string, 2, 1 + n))]>>
             \o find_commands(SubSeq(path_string, 2 + n, Len(path_string)))

\* The decoder's running state: the points emitted and the current point.
DecoderStart == [points |-> <<>>, x |-> 0, y |-> 0]

\* Variant that reads every coordinate pair as relative; C12 must tell it apart.
move_to_relative(st, absolute, nx, ny) ==
    LET x == st.x + nx
        y == st.y + ny
    IN  [points |-> Append(st.points, <<x, y>>), x |-> x, y |-> y]

move_to(st, absolute, nx, ny) ==
    LET x == IF absolute THEN nx ELSE st.x + nx
        y == IF absolute THEN ny ELSE st.y + ny
    IN  [points |-> Append(st.points, <<x, y>>), x |-> x, y |-> y]

\* for i in range(from, len(numbers), 2): if i + 1 < len(numbers): ...
\* (i is Python's 0-based position)
RECURSIVE pairs_from(_, _, _, _)
pairs_from(st, absolute, numbers, i) ==
    IF i >= Len(numbers) THEN st
    ELSE IF i + 1 < Len(numbers)
    THEN pairs_from(move_to(st, absolute, numbers[i + 1], numbers[i + 2]),
                    absolute, numbers, i + 2)
    ELSE pairs_from(st, absolute, numbers, i + 2)

\* Variant that reads every axis argument as absolute; C24 must tell it apart.
RECURSIVE axis_from_absolute(_, _, _, _)
axis_from_absolute(st, absolute, horizontal, numbers) ==
    IF numbers = <<>> THEN st
    ELSE LET num == numbers[1]
             x == IF horizontal THEN num ELSE st.x
             y == IF horizontal THEN st.y ELSE num
         IN  axis_from_absolute([points |-> Append(st.points, <<x, y>>), x |-> x, y |-> y],
                                absolute, horizontal, Tail(numbers))

\* for num in numbers: (H/h when horizontal, V/v otherwise)
RECURSIVE axis_from(_, _, _, _)
axis_from(st, absolute, horizontal, numbers) ==
    IF numbers = <<>> THEN st
    ELSE LET num == numbers[1]
             x == IF ~horizontal THEN st.x
                  ELSE IF absolute THEN num ELSE st.x + num
             y == IF horizontal THEN st.y
                  ELSE IF absolute THEN num ELSE st.y + num
         IN  axis_from([points |-> Append(st.points, <<x, y>>), x |-> x, y |-> y],
                       absolute, horizontal, Tail(numbers))

apply_command(st, cmd) ==
    LET t == cmd.cmd_type
        numbers == cmd.numbers
    IN  IF t \in {"M", "m"}
        THEN IF Len(numbers) >= 2
             THEN pairs_from(move_to(st, t = "M", numbers[1], numbers[2]),
                             t = "M", numbers, 2)
             ELSE st
        ELSE IF t \in {"L", "l"} THEN pairs_from(st, t = "L", numbers, 0)
        ELSE IF t \in {"H", "h"} THEN axis_from(st, t = "H", TRUE, numbers)
        ELSE IF t \in {"V", "v"} THEN axis_from(st, t = "V", FALSE, numbers)
        ELSE st

RECURSIVE run_commands(_, _)
run_commands(st, commands) ==
    IF commands = <<>> THEN st
    ELSE run_commands(apply_command(st, commands[1]), Tail(commands))

\* The loop's state on entry and after each of the commands, in order.
RECURSIVE loop_states(_, _)
loop_states(st, commands) ==
    IF commands = <<>> THEN <<st>>
    ELSE <<st>> \o loop_states(apply_command(st, commands[1]), Tail(commands))

\* Variant that keeps every emitted point; C14 must tell it apart.
dedupe_consecutive_keep(cleaned_points, points) == cleaned_points \o points

\* Remove duplicate consecutive points.
RECURSIVE dedupe_consecutive(_, _)
dedupe_consecutive(cleaned_points, points) ==
    IF points = <<>> THEN cleaned_points
    ELSE dedupe_consecutive(
             IF cleaned_points = <<>> \/ points[1] # cleaned_points[Len(cleaned_points)]
             THEN Append(cleaned_points, points[1])
             ELSE cleaned_points,
             Tail(points))

\* Variant that keeps the closing point; C13 must tell it apart.
drop_closing_point_keep(cleaned_points) == cleaned_points

\* Remove the closing point if it duplicates the first.
drop_closing_point(cleaned_points) ==
    IF Len(cleaned_points) > 1 /\ cleaned_points[1] = cleaned_points[Len(cleaned_points)]
    THEN SubSeq(cleaned_points, 1, Len(cleaned_points) - 1)
    ELSE cleaned_points

\* 'points' after the loop over the commands.
emitted_points(path_string) ==
    run_commands(DecoderStart, find_commands(path_string)).points

parse_path_to_points(path_string) ==
    drop_closing_point(dedupe_consecutive(<<>>, emitted_points(path_string)))

(***************************************************************************)
(* clean_svg                                                               *)
(***************************************************************************)
IsMove(tok) == IsCmd(tok) /\ tok.cmd \in {"M", "m"}

\* re.split(r'(?=[Mm])', d) with the empty pieces dropped: d cut before
\* every move letter.  piece is the piece being collected.
RECURSIVE split_before_moves(_, _)
split_before_moves(d, piece) ==
    LET done == IF piece = <<>> THEN <<>> ELSE <<piece>>
    IN  IF d = <<>> THEN done
        ELSE IF IsMove(d[1]) THEN done \o split_before_moves(Tail(d), <<d[1]>>)
        ELSE split_before_moves(Tail(d), Append(piece, d[1]))

subpaths_of(d) == split_before_moves(d, <<>>)

\* Variant that keeps the last sub-path; C1 must tell it apart.
outer_path_of_last(subpaths) == subpaths[Len(subpaths)]

\* The sub-path clean_svg keeps.
outer_path_of(subpaths) == subpaths[1]

\* Does the loop body reach geometries.append for this path element?
yields_geometry(path_elem) ==
    /\ path_elem.d # <<>>
    /\ subpaths_of(path_elem.d) # <<>>
    /\ Len(parse_path_to_points(outer_path_of(subpaths_of(path_elem.d)))) >= 3

geometry_of(path_elem) ==
    LET outer_path == outer_path_of(subpaths_of(path_elem.d))
    IN  [points |-> parse_path_to_points(outer_path),
         original_path |-> path_elem.d,
         cleaned_path |-> outer_path,
         parent_group |-> IF "id" \in DOMAIN path_elem.parent
                          THEN path_elem.parent.id ELSE None]

\* Variant that ends the extraction at the first path element that yields
\* no geometry; C15 must tell it apart.
RECURSIVE cleaned_geometries_abort(_)
cleaned_geometries_abort(paths) ==
    IF paths = <<>> \/ ~yields_geometry(paths[1]) THEN <<>>
    ELSE <<geometry_of(paths[1])>> \o cleaned_geometries_abort(Tail(paths))

\* self.geometries after the loop over paths.
RECURSIVE cleaned_geometries(_)
cleaned_geometries(paths) ==
    IF paths = <<>> THEN <<>>
    ELSE (IF yields_geometry(paths[1]) THEN <<geometry_of(paths[1])>> ELSE <<>>)
         \o cleaned_geometries(Tail(paths))

\* Variant that rewrites 'd' to what follows the first sub-path; C28 must
\* tell it apart.
cleaned_paths_rest(paths) ==
    [i \in DOMAIN paths |->
        IF yields_geometry(paths[i])
        THEN [paths[i] EXCEPT !.d =
                 Flatten(Tail(subpaths_of(paths[i].d)))]
        ELSE paths[i]]

\* The path elements after the loop: path_elem.set('d', outer_path) where a
\* geometry was appended.
cleaned_paths(paths) ==
    [i \in DOMAIN paths |->
        IF yields_geometry(paths[i])
        THEN [paths[i] EXCEPT !.d = outer_path_of(subpaths_of(paths[i].d))]
        ELSE paths[i]]

NoTree == [loaded |-> FALSE]

NoGeojson == [converted |-> FALSE]

NoViewbox == [read |-> FALSE]

\* Every drawing of the model has the root attribute viewBox="0 0 4 4".
DocumentViewbox == [read |-> TRUE, x |-> 0, y |-> 0, width |-> 4, height |-> 4]

NoResult == [call |-> None]

\* return self
Returned(call) == [call |-> call, returned |-> "self"]

Raised(call, exception) == [call |-> call, raised |-> exception]

ProcessorInit ==
    /\ svg_file = <<>>
    /\ tree = NoTree
    /\ geometries = <<>>
    /\ geojson_data = NoGeojson
    /\ viewbox = NoViewbox
    /\ last_call = None
    /\ call_result = NoResult

\* The drawing is being written (before the processor is used).
Authoring == last_call = None

GroupCount == Len(Flatten([i \in DOMAIN svg_file |-> svg_file[i].groups]))

\* A drawing tool adds a path element to the drawing.
AddPath ==
    /\ Authoring
    /\ Len(svg_file) < MaxPaths
    /\ \E parent \in ParentElements :
        svg_file' = Append(svg_file, [groups |-> <<>>, parent |-> parent])
    /\ UNCHANGED <<tree, geometries, geojson_data, viewbox, last_call, call_result>>
    /\ UNCHANGED outside_processor

\* A drawing tool appends a command group to the last path element's 'd'.
AddGroup ==
    /\ Authoring
    /\ svg_file # <<>>
    /\ GroupCount < MaxGroups
    /\ \E group \in CommandGroups :
        svg_file' = [svg_file EXCEPT ![Len(svg_file)].groups = Append(@, group)]
    /\ UNCHANGED <<tree, geometries, geojson_data, viewbox, last_call, call_result>>
    /\ UNCHANGED outside_processor

\* import_svg(filepath) of the drawing: ET.parse reads every path element
\* with its 'd' attribute (the groups as one string) and its parent.
ImportSvg ==
    /\ tree' = [loaded |-> TRUE,
                paths |-> [i \in DOMAIN svg_file |->
                              [d |-> Flatten(svg_file[i].groups),
                               parent |-> svg_file[i].parent]]]
    /\ viewbox' = DocumentViewbox
    /\ last_call' = "import_svg"
    /\ call_result' = Returned("import_svg")
    /\ UNCHANGED <<svg_file, geometries, geojson_data>>
    /\ UNCHANGED outside_processor

\* clean_svg() on a loaded drawing.
CleanSvg ==
    /\ tree.loaded
    /\ geometries' = cleaned_geometries(tree.paths)
    /\ tree' = [tree EXCEPT !.paths = cleaned_paths(@)]
    /\ last_call' = "clean_svg"
    /\ call_result' = Returned("clean_svg")
    /\ UNCHANGED <<svg_file, geojson_data, viewbox>>
    /\ UNCHANGED outside_processor

NextProcessor ==
    \/ AddPath
    \/ AddGroup
    \/ ImportSvg
    \/ CleanSvg

(***************************************************************************)
(* A processor used for one drawing after another: the file is replaced by *)
(* another drawing of Documents between the calls.  An element that is not *)
(* a child of the root carries its own parent element as 'parent'.         *)
(***************************************************************************)
DocumentPath(groups, parent) == [groups |-> groups, parent |-> parent]

WallsGroup == [tag |-> "g", id |-> "walls"]

TriangleGroups == <<<<Cmd("m"), Num(1), Num(1), Num(1), Num(0), Num(0), Num(1)>>>>
WedgeGroups == <<<<Cmd("M"), Num(1), Num(1)>>, <<Cmd("L"), Num(2), Num(0), Num(2), Num(2)>>>>

Documents ==
    { <<>>,
      <<DocumentPath(TriangleGroups, WallsGroup)>>,
      <<DocumentPath(WedgeGroups, [tag |-> "svg"])>>,
      <<DocumentPath(<<<<Cmd("M"), Num(1), Num(1)>>>>, WallsGroup),
        DocumentPath(WedgeGroups, WallsGroup)>>,
      <<DocumentPath(TriangleGroups, [tag |-> "svg", id |-> "plan"])>>,
      <<DocumentPath(TriangleGroups, [tag |-> "a", parent |-> WallsGroup]),
        DocumentPath(WedgeGroups, [tag |-> "g", parent |-> WallsGroup])>> }

\* The file import_svg reads is replaced by another drawing.
ReplaceDrawing ==
    /\ \E document \in Documents \ {svg_file} : svg_file' = document
    /\ UNCHANGED <<tree, geometries, geojson_data, viewbox, last_call, call_result>>
    /\ UNCHANGED outside_processor

\* The feature_properties argument of convert_to_geojson: left out (None,
\* for which 'feature_properties or {}' is the empty dict), a property of the
\* caller's own, or one named like a property the method writes itself.
FeatureProperties ==
    {EmptyDict, [floor |-> 1], [obstacle_id |-> 7], [point_count |-> 0]}

\* One feature of convert_to_geojson: the polygon closed by repeating its
\* first point, as the only ring of the geometry; i is the obstacle's index,
\* counted from 0.  In the dict display the keys of feature_properties come
\* last, so they replace equal keys written before them.
geojson_feature(i, geom, feature_properties) ==
    [type |-> "Feature",
     id |-> i,
     geometry |-> [type |-> "Polygon",
                   coordinates |-> <<Append(geom.points, geom.points[1])>>],
     properties |-> feature_properties @@
                    [obstacle_id |-> i,
                     group |-> geom.parent_group,
                     point_count |-> Len(geom.points)]]

\* convert_to_geojson(feature_properties); it raises ValueError when there
\* are no geometries.
ConvertToGeojson ==
    /\ geometries # <<>>
    /\ \E feature_properties \in FeatureProperties :
        geojson_data' =
           [converted |-> TRUE,
            features |-> [k \in DOMAIN geometries |->
                             geojson_feature(k - 1, geometries[k], feature_properties)]]
    /\ last_call' = "convert_to_geojson"
    /\ call_result' = Returned("convert_to_geojson")
    /\ UNCHANGED <<svg_file, tree, geometries, viewbox>>
    /\ UNCHANGED outside_processor

\* A call that raises before it has assigned anything.
RaisesAtEntry(call, exception) ==
    /\ call_result' = Raised(call, exception)
    /\ UNCHANGED <<svg_file, tree, geometries, geojson_data, viewbox, last_call>>
    /\ UNCHANGED outside_processor

\* A call that writes an output file and returns self; the processor's
\* fields are only read.
WritesFile(call) ==
    /\ last_call' = call
    /\ call_result' = Returned(call)
    /\ UNCHANGED <<svg_file, tree, geometries, geojson_data, viewbox>>
    /\ UNCHANGED outside_processor

\* import_svg(filepath) with a filepath that names no file.
ImportSvgMissingFile == RaisesAtEntry("import_svg", "FileNotFoundError")

\* clean_svg() before any drawing has been loaded.
CleanSvgRaises ==
    /\ ~tree.loaded
    /\ RaisesAtEntry("clean_svg", "ValueError")

\* convert_to_geojson() without geometries.
ConvertToGeojsonRaises ==
    /\ geometries = <<>>
    /\ RaisesAtEntry("convert_to_geojson", "ValueError")

\* save_svg(output_path)
SaveSvg ==
    IF tree.loaded
    THEN WritesFile("save_svg")
    ELSE RaisesAtEntry("save_svg", "ValueError")

\* create_preview_svg(output_path)
CreatePreviewSvg ==
    IF geometries # <<>>
    THEN WritesFile("create_preview_svg")
    ELSE RaisesAtEntry("create_preview_svg", "ValueError")

\* Variant that exports whatever self.geojson_data holds; C26 must tell it
\* apart.
ExportToGeojson_unguarded == WritesFile("export_to_geojson")

\* export_to_geojson(output_path)
ExportToGeojson ==
    IF geojson_data.converted
    THEN WritesFile("export_to_geojson")
    ELSE RaisesAtEntry("export_to_geojson", "ValueError")

NextLifecycle ==
    \/ ReplaceDrawing
    \/ ImportSvg
    \/ ImportSvgMissingFile
    \/ CleanSvg
    \/ CleanSvgRaises
    \/ ConvertToGeojson
    \/ ConvertToGeojsonRaises
    \/ SaveSvg
    \/ CreatePreviewSvg
    \/ ExportToGeojson

(***************************************************************************)
(* The colour ramp on its own.                                             *)
(***************************************************************************)
ColorInit ==
    /\ color_value = <<0, 1>>
    /\ color_result = get_heatmap_color(0, 1)

ColorConvert ==
    /\ \E num \in 0..(4 * ColorSteps) :
        /\ color_value' = <<num, 4 * ColorSteps>>
        /\ color_result' = get_heatmap_color(num, 4 * ColorSteps)
    /\ UNCHANGED outside_color

NextColor == ColorConvert

(***************************************************************************)
(* Client requests.  The routes exist once app.py has been imported; the   *)
(* handlers for the allocentric and the heatmap operation are modelled     *)
(* above, each with its own state.                                         *)
(***************************************************************************)
Filenames == {"", "plan.svg", "plan.png"}

\* Drawings a client uploads: their path elements in document order.
UploadedPath(groups) == [d |-> Flatten(groups), parent |-> [tag |-> "g", id |-> "walls"]]

TrianglePath == UploadedPath(<<<<Cmd("m"), Num(1), Num(1), Num(1), Num(0), Num(0), Num(1)>>>>)
DotPath == UploadedPath(<<<<Cmd("M"), Num(1), Num(1)>>>>)

Drawings == {<<>>, <<TrianglePath>>, <<DotPath, TrianglePath>>, <<DotPath>>}

\* The drawings' viewBox attribute, "0 0 4 4".
UploadViewbox == [x |-> 0, y |-> 0, width |-> 4, height |-> 4]

Uploads ==
    { [has_file |-> has_file, filename |-> filename, well_formed |-> well_formed,
       paths |-> paths, viewbox |-> UploadViewbox]
        : has_file \in BOOLEAN, filename \in Filenames, well_formed \in BOOLEAN,
          paths \in Drawings }

\* '.' in filename and filename.rsplit('.', 1)[1].lower() in ALLOWED_EXTENSIONS
allowed_file(filename) == filename = "plan.svg"

\* import_floorplan for one upload.
import_response(upload) ==
    IF ~upload.has_file THEN ErrorResponse(400, "No file provided")
    ELSE IF upload.filename = "" THEN ErrorResponse(400, "No file selected")
    ELSE IF ~allowed_file(upload.filename)
    THEN ErrorResponse(400, "Invalid file type. Only .svg files are allowed")
    ELSE IF ~upload.well_formed THEN ErrorResponse(500, "Error processing file")
    ELSE LET processor_geometries == cleaned_geometries(upload.paths)
             geometries_out == [k \in DOMAIN processor_geometries |->
                                   [points |-> processor_geometries[k].points,
                                    group |-> processor_geometries[k].parent_group]]
         IN  [status |-> "success",
              geometries |-> geometries_out,
              viewbox |-> upload.viewbox,
              obstacleCount |-> Len(geometries_out)]

ImportFloorplan ==
    /\ app_state = "serving"
    /\ rq_pc = "idle"
    /\ rq_pc' = "done"
    /\ rq_op' = "import"
    /\ \E upload \in Uploads : rq_response' = import_response(upload)
    /\ UNCHANGED <<_visibility_module, gvm_pc, gvm_local, loads, handles_returned,
                   app_state, VIS_MODULE>>
    /\ UNCHANGED outside_app

Viewpoints == FeatureCenters

\* compute_visibility_polygon (the handler) for one request body.
VisibilityPolygon ==
    /\ app_state = "serving"
    /\ rq_pc = "idle"
    /\ rq_pc' = "done"
    /\ rq_op' = "visibility-polygon"
    /\ \E viewpoint \in Viewpoints, obstacles \in SeqsUpTo(ObstaclePool, MaxObstacles),
          oracle_ok \in BOOLEAN, visibility_points \in VisPool :
        rq_response' =
            IF DOMAIN viewpoint = {} \/ "x" \notin DOMAIN viewpoint
                                     \/ "y" \notin DOMAIN viewpoint
            THEN ErrorResponse(400, "Invalid viewpoint data")
            ELSE IF ~oracle_ok
            THEN ErrorResponse(500, "Error computing visibility polygon")
            ELSE [status |-> "success",
                  visibilityPolygon |-> visibility_points,
                  viewpoint |-> viewpoint,
                  obstacleCount |-> Len(valid_polygons(obstacles))]
    /\ UNCHANGED <<_visibility_module, gvm_pc, gvm_local, loads, handles_returned,
                   app_state, VIS_MODULE>>
    /\ UNCHANGED outside_app

\* The import of app.py raised: no Flask application object exists, so no
\* route answers; the client gets no response from the service.
RefusedRequest ==
    /\ app_state = "failed"
    /\ rq_pc = "idle"
    /\ rq_pc' = "done"
    /\ \E op \in Operations : rq_op' = op
    /\ rq_response' = [status |-> "unavailable"]
    /\ UNCHANGED <<_visibility_module, gvm_pc, gvm_local, loads, handles_returned,
                   app_state, VIS_MODULE>>
    /\ UNCHANGED outside_app

RequestReturn ==
    /\ rq_pc = "done"
    /\ rq_pc' = "idle"
    /\ rq_op' = None
    /\ rq_response' = NoResponse
    /\ UNCHANGED <<_visibility_module, gvm_pc, gvm_local, loads, handles_returned,
                   app_state, VIS_MODULE>>
    /\ UNCHANGED outside_app

NextApp ==
    \/ \E t \in Threads : GvmCall(t)
    \/ \E t \in Threads : GvmTest(t)
    \/ \E t \in Threads : GvmConstruct(t)
    \/ \E t \in Threads : GvmAssign(t)
    \/ \E t \in Threads : GvmReturn(t)
    \/ ImportFloorplan
    \/ VisibilityPolygon
    \/ RefusedRequest
    \/ RequestReturn

(***************************************************************************)
(* is_point_in_polygon on its own.  Test points are given in half units:   *)
(* the lattice points and half-lattice points around the small polygons,   *)
(* and the two points of test_point_in_polygon.  Every edge of a polygon   *)
(* of TestPolygons is horizontal, vertical or has a rise that is a power   *)
(* of two, so the division of the edge test is exact in Python floats too. *)
(***************************************************************************)
Square100 == <<<<0, 0>>, <<100, 0>>, <<100, 100>>, <<0, 100>>>>
Triangle4 == <<<<0, 0>>, <<4, 0>>, <<0, 4>>>>
Notch == <<<<0, 0>>, <<4, 0>>, <<4, 2>>, <<2, 2>>, <<2, 4>>, <<0, 4>>>>

TestPolygons == {Square100, Triangle4, Notch, SegmentPoints}

TestPoints ==
    ((0..MaxTestCoord) \X (0..MaxTestCoord)) \cup {<<100, 100>>, <<300, 100>>}

PointTestInit ==
    /\ pip_point = <<100, 100>>
    /\ pip_vertices = Square100
    /\ pip_flips = crossing_edges(<<100, 100>>, Square100)
    /\ pip_inside = is_point_in_polygon(<<100, 100>>, Square100)

\* One call is_point_in_polygon(point, vertices).
PointTest ==
    /\ \E point2 \in TestPoints, vertices \in TestPolygons :
        /\ pip_point' = point2
        /\ pip_vertices' = vertices
        /\ pip_flips' = crossing_edges(point2, vertices)
        /\ pip_inside' = is_point_in_polygon(point2, vertices)
    /\ UNCHANGED outside_point_test

NextPointTest == PointTest

(***************************************************************************)
(* _parse_path_to_points on its own.  OutlinePaths are the paths           *)
(* "M x,y L x,y ... Z" over the corners of the 100 x 100 square; MixedPaths *)
(* are built of absolute and relative moves and lines, axis commands,      *)
(* closes, commands with several argument groups, moves and lines with an  *)
(* odd number of coordinates or too few, and text that is no command.      *)
(***************************************************************************)
Corners == {<<0, 0>>, <<100, 0>>, <<100, 100>>, <<0, 100>>}

LineTo(v) == <<Cmd("L"), Num(v[1]), Num(v[2])>>

RECURSIVE LinesTo(_)
LinesTo(vs) == IF vs = <<>> THEN <<>> ELSE LineTo(vs[1]) \o LinesTo(Tail(vs))

\* "M v1 L v2 ... L vk Z"
OutlinePath(vs) ==
    <<Cmd("M"), Num(vs[1][1]), Num(vs[1][2])>> \o LinesTo(Tail(vs)) \o <<Cmd("Z")>>

OutlinePaths == {OutlinePath(vs) : vs \in SeqsUpTo(Corners, MaxVertices) \ {<<>>}}

DecoderGroups ==
    { <<Cmd("M"), Num(0), Num(0)>>,
      <<Cmd("m"), Num(1), Num(0), Num(0), Num(1)>>,
      <<Cmd("L"), Num(1), Num(0)>>,
      <<Cmd("l"), Num(-1), Num(0)>>,
      <<Cmd("H"), Num(0)>>,
      <<Cmd("v"), Num(1)>>,
      <<Cmd("Z")>>,
      <<Cmd("L"), Num(0), Num(0), Num(1)>>,
      <<Junk, Num(1), Num(1)>>,
      <<Cmd("M"), Num(2), Num(2), Num(3), Num(1)>>,
      <<Cmd("l"), Num(1), Num(1), Num(1), Num(2)>>,
      <<Cmd("h"), Num(1), Num(2)>>,
      <<Cmd("V"), Num(3), Num(1)>>,
      <<Cmd("M"), Num(5)>>,
      <<Cmd("m"), Num(1), Num(1), Num(1)>> }

MixedPaths == {Flatten(groups) : groups \in SeqsUpTo(DecoderGroups, MaxCommands)}

DecoderInit ==
    /\ dec_pc = "idle"
    /\ dec_path = <<>>
    /\ dec_states = <<>>
    /\ dec_emitted = <<>>
    /\ dec_points = <<>>

\* One call _parse_path_to_points(path_string).
DecodePath ==
    /\ dec_pc = "idle"
    /\ dec_pc' = "done"
    /\ \E path_string \in OutlinePaths \cup MixedPaths :
        /\ dec_path' = path_string
        /\ dec_states' = loop_states(DecoderStart, find_commands(path_string))
        /\ dec_emitted' = emitted_points(path_string)
        /\ dec_points' = parse_path_to_points(path_string)
    /\ UNCHANGED outside_decoder

\* The caller has taken the result; the call's locals are gone.
DecoderReturn ==
    /\ dec_pc = "done"
    /\ dec_pc' = "idle"
    /\ dec_path' = <<>>
    /\ dec_states' = <<>>
    /\ dec_emitted' = <<>>
    /\ dec_points' = <<>>
    /\ UNCHANGED outside_decoder

NextDecoder ==
    \/ DecodePath
    \/ DecoderReturn

(***************************************************************************)
(* Specifications: the whole service, and each part on its own.            *)
(***************************************************************************)
Init ==
    /\ HeatmapInit
    /\ AllocentricInit
    /\ ColorInit
    /\ ProcessorInit
    /\ PointTestInit
    /\ DecoderInit
    /\ AppInit

Next ==
    \/ NextHeatmap
    \/ NextAllocentric
    \/ NextColor
    \/ NextProcessor
    \/ NextLifecycle
    \/ NextPointTest
    \/ NextDecoder
    \/ NextApp

Spec == Init /\ [][Next]_vars

SpecHeatmap == Init /\ [][NextHeatmap]_vars

SpecAllocentric == Init /\ [][NextAllocentric]_vars

SpecColor == Init /\ [][NextColor]_vars

SpecProcessor == Init /\ [][NextProcessor]_vars

SpecLifecycle == Init /\ [][NextLifecycle]_vars

SpecPointTest == Init /\ [][NextPointTest]_vars

SpecDecoder == Init /\ [][NextDecoder]_vars

SpecApp == Init /\ [][NextApp]_vars

(***************************************************************************)
(* Properties of clean_svg.                                                *)
(***************************************************************************)
MoveCount(d) == Cardinality({k \in DOMAIN d : IsMove(d[k])})

\* The first sub-path of d read off the text: d up to, and not including,
\* the first move letter that is not d's first character.
FirstSubpath(d) ==
    LET later == {k \in 2..Len(d) : IsMove(d[k])}
    IN  IF later = {} THEN d
        ELSE SubSeq(d, 1, (CHOOSE k \in later : \A j \in later : k <= j) - 1)

PointSet(points) == {points[k] : k \in DOMAIN points}

\* C1: a clean_svg call treats every path element whose 'd' has more than
\* one move-to (M or m) by its first sub-path alone: when the first sub-path
\* decodes to at least 3 points, the element's 'd' becomes the first
\* sub-path and its geometry records exactly the decoding of the first
\* sub-path; otherwise the element yields no geometry and keeps its 'd'.
C1_KeepsFirstSubpathOnly ==
    [][last_call' = "clean_svg" =>
        \A i \in DOMAIN tree.paths :
            LET d == tree.paths[i].d
                first == FirstSubpath(d)
                points == parse_path_to_points(first)
                recorded == {k \in DOMAIN geometries' :
                                geometries'[k].original_path = d}
            IN  MoveCount(d) > 1 =>
                    IF Len(points) >= 3
                    THEN /\ tree'.paths[i].d = first
                         /\ recorded # {}
                         /\ \A k \in recorded :
                                /\ geometries'[k].points = points
                                /\ geometries'[k].cleaned_path = first
                    ELSE /\ tree'.paths[i].d = d
                         /\ recorded = {}
      ]_vars

\* clean_svg has recorded a geometry for a path whose later sub-path (begun
\* by M or m) would have contributed a point the geometry does not have.
C1_Witness ==
    /\ last_call = "clean_svg"
    /\ \E k \in DOMAIN geometries :
        /\ MoveCount(geometries[k].original_path) > 1
        /\ geometries[k].cleaned_path # geometries[k].original_path
        /\ PointSet(parse_path_to_points(geometries[k].original_path))
               \ PointSet(geometries[k].points) # {}

(***************************************************************************)
(* Properties of the visibility handlers.                                  *)
(***************************************************************************)
\* s without the element at Python position i.
RemoveAt(s, i) == SubSeq(s, 1, i) \o SubSeq(s, i + 2, Len(s))

HeatmapSucceeded == hm_pc = "done" /\ hm_response.status = "success"

AllocentricSucceeded == al_pc = "done" /\ al_response.status = "success"

\* C2: allocentric visibility hands the oracle the caller's obstacle list
\* with exactly the obstacle at position excludeIndex of that list removed,
\* the others kept in order, also when some obstacles have fewer than 3
\* points.
C2_ExcludesCallersObstacle ==
    (/\ al_pc = "done"
     /\ al_oracle_calls # <<>>
     /\ al_request.excludeObstacleIndex \in 0..(Len(al_request.obstacles) - 1))
    => al_oracle_calls[1].obstacles =
           RemoveAt(al_request.obstacles, al_request.excludeObstacleIndex)

\* C3: in the heatmap the k-th oracle query is the one of the obstacle at
\* index k >= 1 of the supplied list: its viewpoint is that obstacle's
\* centroid and its obstacle set is the supplied list without that obstacle
\* (so index 0 is an occluder of every query and never a viewpoint); a
\* completed heatmap has queried every index >= 1 once.
C3_ViewpointsOfSuppliedList ==
    hm_request.op = "heatmap" =>
        LET supplied == hm_request.obstacles
        IN  /\ \A k \in DOMAIN hm_oracle_calls :
                /\ k + 1 <= Len(supplied)
                /\ hm_oracle_calls[k].viewpoint = centroid(supplied[k + 1])
                /\ hm_oracle_calls[k].obstacles = RemoveAt(supplied, k)
                /\ hm_oracle_calls[k].obstacles # <<>>
                /\ hm_oracle_calls[k].obstacles[1] = supplied[1]
            /\ HeatmapSucceeded => Len(hm_oracle_calls) = Len(supplied) - 1

\* C4: a heatmap request with fewer than 2 obstacles is answered with a
\* validation error; no grid is created, the oracle is not queried and the
\* response carries no cells.
C4_TooFewObstaclesRejected ==
    (hm_request.op = "heatmap" /\ Len(hm_request.obstacles) < 2)
    => /\ hm_pc = "done"
       /\ hm_response.status = "error"
       /\ hm_response.code = 400
       /\ "pixels" \notin DOMAIN hm_response
       /\ grid_scores = NoGrid
       /\ hm_oracle_calls = <<>>

C4_Witness ==
    /\ hm_request.op = "heatmap"
    /\ Len(hm_request.obstacles) = 1
    /\ hm_response.status = "error"

\* The visibility polygons (by position) that contain the centre
\* ((col + 1/2) * res, (row + 1/2) * res) of cell (row, col), 0-based; for
\* res = num / den the centre and the polygon are taken in units of
\* 1 / (2 * den) and 1 / den.
SeenFrom(row, col) ==
    LET num == hm_request.gridResolution[1]
        den == hm_request.gridResolution[2]
    IN  {k \in DOMAIN visibility_results :
            is_point_in_polygon(
                <<(2 * col + 1) * num, (2 * row + 1) * num>>,
                [i \in DOMAIN visibility_results[k] |->
                    <<den * visibility_results[k][i][1],
                      den * visibility_results[k][i][2]>>])}

\* C5: after a successful heatmap every viewpoint has been processed and the
\* score of every cell is the number of visibility polygons containing the
\* cell's centre, hence between 0 and the number of viewpoints.
C5_ScoreCountsViewpoints ==
    HeatmapSucceeded =>
        /\ Len(visibility_results) = hm_response.objectCenterCount
        /\ \A r \in DOMAIN grid_scores.cells : \A c \in DOMAIN grid_scores.cells[r] :
            /\ grid_scores.cells[r][c] = Cardinality(SeenFrom(r - 1, c - 1))
            /\ grid_scores.cells[r][c] >= 0
            /\ grid_scores.cells[r][c] <= hm_response.objectCenterCount

C5_Witness ==
    /\ HeatmapSucceeded
    /\ hm_response.objectCenterCount = 2
    /\ \E r \in DOMAIN grid_scores.cells : \E c \in DOMAIN grid_scores.cells[r] :
        grid_scores.cells[r][c] = 1
    /\ \E r \in DOMAIN grid_scores.cells : \E c \in DOMAIN grid_scores.cells[r] :
        grid_scores.cells[r][c] = 2

\* C6: while the grid of one request exists, a step leaves every cell's
\* score unchanged or adds exactly 1 to it, and scores change only in a step
\* that processes one more viewpoint.
C6_ScoresGrowByAtMostOne ==
    [][(grid_scores.created /\ grid_scores'.created) =>
          /\ DOMAIN grid_scores'.cells = DOMAIN grid_scores.cells
          /\ \A r \in DOMAIN grid_scores.cells :
                /\ DOMAIN grid_scores'.cells[r] = DOMAIN grid_scores.cells[r]
                /\ \A c \in DOMAIN grid_scores.cells[r] :
                      \/ grid_scores'.cells[r][c] = grid_scores.cells[r][c]
                      \/ /\ grid_scores'.cells[r][c] = grid_scores.cells[r][c] + 1
                         /\ center_idx' = center_idx + 1]_vars

C6_Witness ==
    /\ hm_pc = "loop"
    /\ center_idx = 2
    /\ \E r \in DOMAIN grid_scores.cells : \E c \in DOMAIN grid_scores.cells[r] :
        grid_scores.cells[r][c] = 2
    /\ \E r \in DOMAIN grid_scores.cells : \E c \in DOMAIN grid_scores.cells[r] :
        grid_scores.cells[r][c] = 1
    /\ \E r \in DOMAIN grid_scores.cells : \E c \in DOMAIN grid_scores.cells[r] :
        grid_scores.cells[r][c] = 0

\* The rectangle of cell (row, col), 0-based, for a whole resolution.
CellRectangle(row, col) ==
    LET res == hm_request.gridResolution[1]
        at(n) == float_of_int(n)
    IN  <<<<at(col * res), at(row * res)>>, <<at((col + 1) * res), at(row * res)>>,
          <<at((col + 1) * res), at((row + 1) * res)>>,
          <<at(col * res), at((row + 1) * res)>>>>

\* Is the float x below / above the centre coordinate (g + 1/2) * res?
BelowCentre(x, g) ==
    BigCmp(BigMulSmall(x, 2 * hm_request.gridResolution[2]),
           float_of_int((2 * g + 1) * hm_request.gridResolution[1])) < 0

AboveCentre(x, g) ==
    BigCmp(BigMulSmall(x, 2 * hm_request.gridResolution[2]),
           float_of_int((2 * g + 1) * hm_request.gridResolution[1])) > 0

\* Listed cell i is the cell (row, col), 0-based: its rectangle holds that
\* cell's centre.
ListsCell(i, row, col) ==
    LET points == hm_response.pixels[i].points
    IN  /\ BelowCentre(points[1][1], col) /\ AboveCentre(points[3][1], col)
        /\ BelowCentre(points[1][2], row) /\ AboveCentre(points[3][2], row)

\* The cells of score > 0 as <<row, col>> (0-based), row by row.
PositiveCells ==
    LET cells == grid_scores.cells
        columns == Len(cells[1])
    IN  SelectSeq([k \in 1..(Len(cells) * columns) |->
                      <<(k - 1) \div columns, (k - 1) % columns>>],
                  LAMBDA rc : cells[rc[1] + 1][rc[2] + 1] > 0)

\* C7: a successful heatmap response lists exactly the cells whose score is
\* > 0, each once (row by row) and with its score, which is >= 1; so no
\* cell of score 0 is listed and at most rows * columns cells are.
C7_EmitsExactlyPositiveCells ==
    HeatmapSucceeded =>
        LET cells == grid_scores.cells
            pixels == hm_response.pixels
        IN  /\ Len(pixels) = Len(PositiveCells)
            /\ \A i \in DOMAIN pixels :
                LET row == PositiveCells[i][1]
                    col == PositiveCells[i][2]
                IN  /\ pixels[i].score = cells[row + 1][col + 1]
                    /\ pixels[i].score >= 1
                    /\ ListsCell(i, row, col)
                    /\ IsWhole(hm_request.gridResolution) =>
                          pixels[i].points = CellRectangle(row, col)
            /\ Len(pixels) <= Len(cells) * Len(cells[1])

C7_Witness ==
    /\ HeatmapSucceeded
    /\ hm_response.pixels # <<>>
    /\ \E r \in DOMAIN grid_scores.cells : \E c \in DOMAIN grid_scores.cells[r] :
        grid_scores.cells[r][c] = 0

\* C8: for positive canvas sizes and a positive resolution the grid has
\* floor(canvasHeight / res) rows of floor(canvasWidth / res) columns, and
\* every corner of every listed rectangle lies inside
\* [0, canvasWidth] x [0, canvasHeight].
C8_GridFitsCanvas ==
    (/\ hm_request.op = "heatmap"
     /\ hm_request.canvasWidth > 0
     /\ hm_request.canvasHeight > 0
     /\ hm_request.gridResolution[1] > 0
     /\ grid_scores.created)
    => LET num == hm_request.gridResolution[1]
           den == hm_request.gridResolution[2]
           floor_div(canvas) == CHOOSE n \in 0..(canvas * den) :
                                    /\ n * num <= canvas * den
                                    /\ (n + 1) * num > canvas * den
       IN  /\ Len(grid_scores.cells) = floor_div(hm_request.canvasHeight)
           /\ \A r \in DOMAIN grid_scores.cells :
                 Len(grid_scores.cells[r]) = floor_div(hm_request.canvasWidth)
           /\ HeatmapSucceeded =>
                 \A i \in DOMAIN hm_response.pixels :
                    \A j \in 1..4 :
                       LET corner == hm_response.pixels[i].points[j]
                       IN  /\ float_ge_int(corner[1], 0)
                           /\ float_le_int(corner[1], hm_request.canvasWidth)
                           /\ float_ge_int(corner[2], 0)
                           /\ float_le_int(corner[2], hm_request.canvasHeight)

\* C9: in a successful heatmap response every cell's normalized score is
\* score / maxScore, maxScore being the largest score of the grid, so it is
\* in (0, 1], and if a cell is listed one listed cell has normalized score 1.
C9_NormalizedByMaximum ==
    HeatmapSucceeded =>
        LET cells == grid_scores.cells
            pixels == hm_response.pixels
            top == hm_response.maxScore
        IN  /\ \A r \in DOMAIN cells : \A c \in DOMAIN cells[r] : cells[r][c] <= top
            /\ \E r \in DOMAIN cells : \E c \in DOMAIN cells[r] : cells[r][c] = top
            /\ \A i \in DOMAIN pixels :
                /\ pixels[i].normalized[2] > 0
                /\ pixels[i].normalized[1] * top = pixels[i].score * pixels[i].normalized[2]
                /\ pixels[i].normalized[1] > 0
                /\ pixels[i].normalized[1] <= pixels[i].normalized[2]
            /\ pixels # <<>> =>
                  \E i \in DOMAIN pixels : pixels[i].normalized[1] = pixels[i].normalized[2]

C9_Witness ==
    /\ HeatmapSucceeded
    /\ hm_response.maxScore = 2
    /\ \E i \in DOMAIN hm_response.pixels : hm_response.pixels[i].score = 1

\* C10: the colour ramp is continuous at 0.25, 0.5 and 0.75: the colour of
\* the boundary value is the lower bucket's at t = 1, which is the next
\* bucket's at t = 0, namely (0,128,255), (0,255,0) and (255,255,0); and
\* every normalized value > 0 gets the same alpha.
C10_RampContinuousAtBoundaries ==
    LET num == color_value[1]
        den == color_value[2]
        IsBoundary(b) == 4 * num = b * den
        rgb(color) == <<color[1], color[2], color[3]>>
    IN  /\ \A b \in 1..3 :
            IsBoundary(b) =>
                /\ color_result = RampColor(b, 1, 1)
                /\ color_result = RampColor(b + 1, 0, 1)
                /\ rgb(color_result) =
                       (CASE b = 1 -> <<0, 128, 255>>
                          [] b = 2 -> <<0, 255, 0>>
                          [] b = 3 -> <<255, 255, 0>>)
        /\ num > 0 => color_result[4] = 150

C10_Witness ==
    /\ 4 * color_value[1] = 2 * color_value[2]
    /\ color_result = <<0, 255, 0, 150>>

(***************************************************************************)
(* Properties of is_point_in_polygon.                                      *)
(***************************************************************************)
\* The vertex before vertex i on the polygon's outline.
VertexBefore(vertices, i) == vertices[IF i = 1 THEN Len(vertices) ELSE i - 1]

\* Edge i of the polygon runs through the test point's height with exactly
\* one endpoint strictly above it.
StraddlesPoint(point2, vertices, i) ==
    LET above(v) == 2 * v[2] > point2[2]
    IN  above(vertices[i]) # above(VertexBefore(vertices, i))

\* C11: the even-odd test puts (50,50) inside and (150,50) outside the
\* square (0,0),(100,0),(100,100),(0,100); an edge flips the answer only if
\* exactly one of its endpoints has y strictly greater than the point's y,
\* so a horizontal edge never does; the answer is the parity of the flips;
\* and testing the same point against the same polygon again gives the same
\* answer, also for a point on an edge or a vertex.
C11_EvenOddPointTest ==
    /\ [](/\ (pip_vertices = Square100 /\ pip_point = <<100, 100>>) => pip_inside
          /\ (pip_vertices = Square100 /\ pip_point = <<300, 100>>) => ~pip_inside
          /\ \A i \in pip_flips :
                /\ StraddlesPoint(pip_point, pip_vertices, i)
                /\ pip_vertices[i][2] # VertexBefore(pip_vertices, i)[2]
          /\ pip_inside = (Cardinality(pip_flips) % 2 = 1))
    /\ [][(pip_point' = pip_point /\ pip_vertices' = pip_vertices)
              => pip_inside' = pip_inside]_vars

\* A point that lies on a horizontal edge of the polygon, at the height of
\* two of its vertices, has been classified, and some edge flipped the answer.
C11_Witness ==
    /\ pip_flips # {}
    /\ \E i \in DOMAIN pip_vertices :
        LET vi == pip_vertices[i]
            vj == VertexBefore(pip_vertices, i)
        IN  /\ vi[2] = vj[2]
            /\ 2 * vi[2] = pip_point[2]
            /\ \/ 2 * vi[1] <= pip_point[1] /\ pip_point[1] <= 2 * vj[1]
               \/ 2 * vj[1] <= pip_point[1] /\ pip_point[1] <= 2 * vi[1]

(***************************************************************************)
(* Properties of _parse_path_to_points.                                    *)
(***************************************************************************)
\* The path reads "M x,y L x,y ... L x,y Z": an absolute move, absolute
\* lines of one coordinate pair each, and a close.
IsOutline(path) ==
    /\ Len(path) >= 4
    /\ Len(path) % 3 = 1
    /\ path[Len(path)] = Cmd("Z")
    /\ \A i \in 1..((Len(path) - 1) \div 3) :
        /\ path[3 * i - 2] = (IF i = 1 THEN Cmd("M") ELSE Cmd("L"))
        /\ IsNum(path[3 * i - 1])
        /\ IsNum(path[3 * i])

\* The coordinate pairs written in an outline, in their written order.
ListedVertices(path) ==
    [i \in 1..((Len(path) - 1) \div 3) |-> <<path[3 * i - 1].num, path[3 * i].num>>]

\* No point of the sequence equals the next one, and the last differs from
\* the first.
NoRepeatedNeighbour(points) ==
    /\ \A i \in 1..(Len(points) - 1) : points[i] # points[i + 1]
    /\ Len(points) >= 2 => points[Len(points)] # points[1]

\* C12 as stated: decoding "M x,y L x,y ... Z" yields exactly the listed
\* vertices in their written order, with no closing point appended.
C12_OutlineYieldsListedVertices ==
    (dec_pc = "done" /\ IsOutline(dec_path))
        => dec_points = ListedVertices(dec_path)

\* C12, amended: decoding "M x,y L x,y ... Z" whose listed vertices never
\* repeat the vertex before them, and whose last listed vertex is not the
\* first one again, yields exactly the listed vertices in their written
\* order; the close emits no point.
C12_DistinctOutlineYieldsListedVertices ==
    (/\ dec_pc = "done"
     /\ IsOutline(dec_path)
     /\ NoRepeatedNeighbour(ListedVertices(dec_path)))
        => /\ dec_points = ListedVertices(dec_path)
           /\ dec_emitted = ListedVertices(dec_path)

\* "M0,0 L100,0 L100,100 L0,100 Z" has been decoded to its four corners.
C12_Witness ==
    /\ dec_pc = "done"
    /\ dec_path = OutlinePath(Square100)
    /\ dec_points = Square100

\* The path's final explicit point is coordinate-identical to its first.
ClosesOnFirst(emitted) ==
    /\ Len(emitted) >= 2
    /\ emitted[Len(emitted)] = emitted[1]

\* The result does not end on a repeat of its first point.
FinalDuplicateDropped(points) ==
    /\ points # <<>>
    /\ Len(points) >= 2 => points[Len(points)] # points[1]

\* A point comes back only directly after itself, or as the closing return
\* to the first point.
OnlyClosingRepeat(emitted) ==
    \A i, j \in DOMAIN emitted :
        (i < j /\ emitted[i] = emitted[j]) =>
            \/ \A k \in i..j : emitted[k] = emitted[i]
            \/ /\ \A k \in 1..i : emitted[k] = emitted[1]
               /\ \A k \in j..Len(emitted) : emitted[k] = emitted[1]

\* C13 as stated: decoding a path whose final explicit point equals its
\* first point drops that final duplicate, and the result has as many
\* points as the path has distinct vertices.
C13_ClosedPathLengthIsDistinctCount ==
    (dec_pc = "done" /\ ClosesOnFirst(dec_emitted))
        => /\ FinalDuplicateDropped(dec_points)
           /\ Len(dec_points) = Cardinality(PointSet(dec_emitted))

\* C13, amended: decoding a path whose final explicit point equals its
\* first point, and in which a point otherwise comes back only directly
\* after itself, drops that final duplicate, and the result has as many
\* points as the path has distinct vertices.  For every path whose final
\* point equals its first the final duplicate is dropped.
C13_SimpleClosedPathLengthIsDistinctCount ==
    (dec_pc = "done" /\ ClosesOnFirst(dec_emitted))
        => /\ FinalDuplicateDropped(dec_points)
           /\ dec_points[1] = dec_emitted[1]
           /\ OnlyClosingRepeat(dec_emitted)
                 => Len(dec_points) = Cardinality(PointSet(dec_emitted))

\* A path of at least three distinct vertices that returns to its first
\* point has been decoded, and the result is one point shorter.
C13_Witness ==
    /\ dec_pc = "done"
    /\ ClosesOnFirst(dec_emitted)
    /\ OnlyClosingRepeat(dec_emitted)
    /\ Len(dec_points) >= 3
    /\ Len(dec_emitted) = Len(dec_points) + 1

\* What clean_svg stores for a drawing whose only path element has the
\* given 'd'.
StoredFor(d) == cleaned_geometries(<<[d |-> d, parent |-> [tag |-> "svg"]]>>)

\* C14: a point sequence of 2 or more points returned by the decoder, and
\* so every obstacle polygon clean_svg stores for the path, has no two
\* consecutive vertices that are coordinate-identical, and its first and
\* last vertices are not coordinate-identical.
C14_NoRepeatedStoredVertices ==
    dec_pc = "done" =>
        /\ Len(dec_points) >= 2 => NoRepeatedNeighbour(dec_points)
        /\ \A k \in DOMAIN StoredFor(dec_path) :
              /\ Len(StoredFor(dec_path)[k].points) >= 3
              /\ NoRepeatedNeighbour(StoredFor(dec_path)[k].points)

\* A path that emitted a point twice in a row and came back to its first
\* point has been decoded to a polygon that clean_svg stores.
C14_Witness ==
    /\ dec_pc = "done"
    /\ \E i \in 1..(Len(dec_emitted) - 1) : dec_emitted[i] = dec_emitted[i + 1]
    /\ ClosesOnFirst(dec_emitted)
    /\ Len(dec_points) >= 3
    /\ StoredFor(dec_path) # <<>>

(***************************************************************************)
(* Properties of the obstacle list.                                        *)
(***************************************************************************)
\* The path elements, by position in the document, whose first sub-path
\* decodes to a polygon.
ValidElements(paths) ==
    {i \in DOMAIN paths : Len(parse_path_to_points(FirstSubpath(paths[i].d))) >= 3}

\* C15: a clean_svg call leaves as the obstacle list exactly the path
\* elements whose first sub-path decodes to 3 or more points, in document
\* order: the obstacle at index k (counted from 1) comes from the k-th such
\* element, whatever empty or degenerate elements stand before it.
C15_ObstaclesInDocumentOrder ==
    [][last_call' = "clean_svg" =>
        LET valid == ValidElements(tree.paths)
            index_of(i) == Cardinality({j \in valid : j <= i})
        IN  /\ Len(geometries') = Cardinality(valid)
            /\ \A i \in valid :
                  /\ geometries'[index_of(i)].original_path = tree.paths[i].d
                  /\ geometries'[index_of(i)].points =
                         parse_path_to_points(FirstSubpath(tree.paths[i].d))
                  /\ geometries'[index_of(i)].parent_group =
                         (IF "id" \in DOMAIN tree.paths[i].parent
                          THEN tree.paths[i].parent.id ELSE None)
      ]_vars

\* clean_svg has skipped a degenerate first path element and stored the
\* second one as the only obstacle.
C15_Witness ==
    /\ last_call = "clean_svg"
    /\ Len(tree.paths) = 2
    /\ tree.paths[1].d # <<>>
    /\ ValidElements(tree.paths) = {2}
    /\ Len(geometries) = 1
    /\ geometries[1].cleaned_path = tree.paths[2].d

(***************************************************************************)
(* Properties of the process.                                              *)
(***************************************************************************)
\* C17: over any interleaving of get_visibility_module() calls the oracle
\* is loaded (a VisibilityModule constructed) at most once, and every call
\* returns the same handle.
C17_OracleLoadedAtMostOnce ==
    /\ loads <= 1
    /\ Cardinality(handles_returned) <= 1

\* The import of app.py ended because the oracle could not be initialized.
OracleFailedToInitialize == app_state = "failed"

\* C16: when the geometry oracle fails to initialize, a request for a
\* visibility-dependent operation (visibility polygon, allocentric
\* visibility, heatmap) gets an error, while a request to import and clean
\* a drawing is still served and gets its success payload.
C16_ImportSurvivesOracleFailure ==
    (OracleFailedToInitialize /\ rq_pc = "done") =>
        IF rq_op = "import"
        THEN rq_response.status = "success"
        ELSE rq_response.status # "success"

(***************************************************************************)
(* Properties of the processor's lifecycle.                                *)
(***************************************************************************)
\* The obstacle comes from a path element of the drawing now loaded.
FromLoadedDrawing(geom, paths) ==
    \E i \in DOMAIN paths : geom.original_path = paths[i].d

\* The exported feature is the closed outline of a path element of the
\* drawing now loaded.
FeatureOfLoadedDrawing(feature, paths) ==
    \E i \in DOMAIN paths :
        LET points == parse_path_to_points(FirstSubpath(paths[i].d))
        IN  /\ Len(points) >= 3
            /\ feature.geometry.coordinates = <<Append(points, points[1])>>

\* C18: once import_svg of a drawing has succeeded, the processor exposes
\* no obstacle and no exported feature of the drawing it held before: what
\* self.geometries and self.geojson_data still hold comes from the drawing
\* just imported.
C18_ImportDiscardsPreviousObstacles ==
    [][(last_call' = "import_svg" /\ svg_file' = svg_file) =>
          /\ \A k \in DOMAIN geometries' :
                FromLoadedDrawing(geometries'[k], tree'.paths)
          /\ geojson_data'.converted =>
                \A k \in DOMAIN geojson_data'.features :
                    FeatureOfLoadedDrawing(geojson_data'.features[k], tree'.paths)
      ]_vars

(***************************************************************************)
(* Properties of the payloads.                                             *)
(***************************************************************************)
\* The supplied obstacles a handler discards: those with fewer than 3 points.
DroppedObstacles(obstacles) == Len(obstacles) - Len(valid_polygons(obstacles))

\* Another request that differs from the one handled only in its obstacles,
\* supplies as many of them and puts the same query to the oracle; the
\* handler answers it with the same payload.
SamePayloadRequests ==
    {other \in AllocentricBodies :
        /\ other = [al_request EXCEPT !.obstacles = other.obstacles]
        /\ Len(other.obstacles) = Len(al_request.obstacles)
        /\ allocentric_obstacles(other) = allocentric_obstacles(al_request)}

\* C19, for the allocentric operation: a success payload lets the caller,
\* who knows how many obstacles were supplied, determine how many of them
\* were dropped for having fewer than 3 points; so two requests of the same
\* size that get the same payload dropped the same number.
C19_DropsAreCounted ==
    AllocentricSucceeded =>
        \A other \in SamePayloadRequests :
            DroppedObstacles(other.obstacles) = DroppedObstacles(al_request.obstacles)

(***************************************************************************)
(* Properties of the allocentric handler's validation.                     *)
(***************************************************************************)
\* The request names no feature center, or one without x or without y.
CenterMissingOrIncomplete(data) ==
    \/ "featureCenter" \notin DOMAIN data
    \/ ~({"x", "y"} \subseteq DOMAIN data.featureCenter)

\* The request's excludeObstacleIndex addresses no obstacle of the supplied
\* list.
IndexOutOfList(data) ==
    /\ "excludeObstacleIndex" \in DOMAIN data
    /\ \/ data.excludeObstacleIndex < 0
       \/ data.excludeObstacleIndex >= Len(data.obstacles)

\* C20: an allocentric request with a missing or incomplete feature center,
\* without excludeObstacleIndex, or with an excludeObstacleIndex that is
\* negative or not below the length of the supplied list is answered with a
\* validation error, and the oracle is not invoked.
C20_PreconditionsValidatedFirst ==
    (/\ al_pc = "done"
     /\ \/ CenterMissingOrIncomplete(al_request)
        \/ "excludeObstacleIndex" \notin DOMAIN al_request
        \/ IndexOutOfList(al_request))
        => /\ al_response.status = "error"
           /\ al_response.code = 400
           /\ al_oracle_calls = <<>>

(***************************************************************************)
(* Properties of the heatmap's aggregation loop.                           *)
(***************************************************************************)
\* The oracle call of the current heatmap request has raised.
HeatmapOracleFailed ==
    /\ hm_pc = "done"
    /\ hm_response = ErrorResponse(500, "oracle")

\* C21: heatmap aggregation is fail-fast and all-or-nothing.  When the
\* oracle query of a viewpoint fails the request ends with an error that
\* carries no cells, and no further viewpoint is processed (the oracle is
\* queried only while the loop runs and no response exists); a response
\* with cells exists only when every viewpoint has been processed and the
\* request is finished.
C21_HeatmapFailFast ==
    /\ [](/\ hm_response.status = "error" => "pixels" \notin DOMAIN hm_response
          /\ "pixels" \in DOMAIN hm_response =>
                /\ hm_pc = "done"
                /\ hm_response.status = "success"
                /\ center_idx = Len(object_centers)
                /\ Len(visibility_results) = Len(object_centers)
                /\ Len(hm_oracle_calls) = Len(object_centers))
    /\ [][/\ Len(hm_oracle_calls') > Len(hm_oracle_calls) =>
                /\ hm_pc = "loop"
                /\ hm_response = NoResponse
          /\ (hm_pc = "loop" /\ Len(visibility_results') = Len(visibility_results)
                /\ Len(hm_oracle_calls') > Len(hm_oracle_calls)) =>
                HeatmapOracleFailed'
          /\ HeatmapOracleFailed =>
                /\ hm_oracle_calls' \in {hm_oracle_calls, <<>>}
                /\ visibility_results' \in {visibility_results, <<>>}
                /\ hm_pc' # "loop"]_vars

\* The query of the first of two viewpoints failed: the second is never
\* queried.
C21_Witness ==
    /\ HeatmapOracleFailed
    /\ Len(object_centers) = 2
    /\ Len(hm_oracle_calls) = 1
    /\ visibility_results = <<>>

\* C27: a heatmap request that passes the at-least-two-obstacles check and
\* is answered with a success payload has processed at least one viewpoint
\* (objectCenterCount >= 1, one oracle query at least) over a grid of at
\* least one row and one column.
C27_SuccessHasViewpoint ==
    HeatmapSucceeded =>
        /\ hm_response.objectCenterCount >= 1
        /\ hm_oracle_calls # <<>>
        /\ Len(grid_scores.cells) >= 1
        /\ Len(grid_scores.cells[1]) >= 1

(***************************************************************************)
(* Properties of the GeoJSON conversion.                                   *)
(***************************************************************************)
\* The feature written for the obstacle at index i (from 0) of the obstacle
\* list: tagged with i, the obstacle's group and its vertex count, with one
\* ring of the vertices in order, closed by the first vertex.
TagsObstacle(feature, i, geom) ==
    /\ feature.properties.obstacle_id = i
    /\ feature.properties.point_count = Len(geom.points)
    /\ feature.properties.group = geom.parent_group
    /\ Len(feature.geometry.coordinates) = 1
    /\ LET ring == feature.geometry.coordinates[1]
           point_count == feature.properties.point_count
       IN  /\ Len(ring) = point_count + 1
           /\ ring[Len(ring)] = ring[1]
           /\ SubSeq(ring, 1, point_count) = geom.points

\* C22: after convert_to_geojson the feature collection has exactly one
\* feature per obstacle, in obstacle order, and feature i is tagged with
\* obstacle_id i, the obstacle's vertex count and group, and holds a single
\* closed ring of the obstacle's vertices.
C22_OneFeaturePerObstacle ==
    last_call = "convert_to_geojson" =>
        /\ geojson_data.converted
        /\ Len(geojson_data.features) = Len(geometries)
        /\ \A k \in DOMAIN geojson_data.features :
            TagsObstacle(geojson_data.features[k], k - 1, geometries[k])

(***************************************************************************)
(* Properties of the decoder's loop over the commands.                     *)
(***************************************************************************)
\* A move with fewer than 2 numbers, or a move or line with an odd number
\* of numbers.
WrongArity(cmd) ==
    \/ cmd.cmd_type \in {"M", "m"} /\ Len(cmd.numbers) < 2
    \/ cmd.cmd_type \in {"M", "m", "L", "l"} /\ Len(cmd.numbers) % 2 = 1

\* C23: the decoder runs every command of any path to the end (it never
\* raises), and a command group of the wrong arity (a move with fewer than
\* 2 numbers, a move or line with an odd number of numbers) is skipped as a
\* whole: it emits no point and leaves the current point where it was.
C23_WrongArityGroupSkipped ==
    dec_pc = "done" =>
        LET commands == find_commands(dec_path)
        IN  /\ Len(dec_states) = Len(commands) + 1
            /\ \A k \in DOMAIN commands :
                WrongArity(commands[k]) => dec_states[k + 1] = dec_states[k]

\* numbers[first] + numbers[first + step] + ... (count terms).
RECURSIVE SumEvery(_, _, _, _)
SumEvery(numbers, first, step, count) ==
    IF count = 0 THEN 0
    ELSE numbers[first] + SumEvery(numbers, first + step, step, count - 1)

\* The points a command emits when the current point is (x, y): one per
\* argument group (a coordinate pair of M, m, L, l; a number of H, h, V, v),
\* each the current point after the group has been applied.
PointsOfCommand(cmd, x, y) ==
    LET t == cmd.cmd_type
        numbers == cmd.numbers
        pairs == Len(numbers) \div 2
    IN  IF t \in {"M", "L"}
        THEN [j \in 1..pairs |-> <<numbers[2 * j - 1], numbers[2 * j]>>]
        ELSE IF t \in {"m", "l"}
        THEN [j \in 1..pairs |-> <<x + SumEvery(numbers, 1, 2, j),
                                   y + SumEvery(numbers, 2, 2, j)>>]
        ELSE IF t = "H" THEN [j \in DOMAIN numbers |-> <<numbers[j], y>>]
        ELSE IF t = "h"
        THEN [j \in DOMAIN numbers |-> <<x + SumEvery(numbers, 1, 1, j), y>>]
        ELSE IF t = "V" THEN [j \in DOMAIN numbers |-> <<x, numbers[j]>>]
        ELSE IF t = "v"
        THEN [j \in DOMAIN numbers |-> <<x, y + SumEvery(numbers, 1, 1, j)>>]
        ELSE <<>>

\* C24: the current point starts at (0,0); an absolute M or L overwrites
\* both coordinates, a relative m or l adds its pair, H/h changes only x and
\* V/v only y; every argument group of a command emits one point, the
\* current point after it (cumulative in relative mode); the pairs of a move
\* after the first are line-tos in the move's mode.  So each command appends
\* PointsOfCommand to the points and leaves the current point on the last of
\* them.
C24_CursorFollowsCommands ==
    dec_pc = "done" =>
        LET commands == find_commands(dec_path)
        IN  /\ dec_states[1] = [points |-> <<>>, x |-> 0, y |-> 0]
            /\ \A k \in DOMAIN commands :
                LET before == dec_states[k]
                    after == dec_states[k + 1]
                    emitted == PointsOfCommand(commands[k], before.x, before.y)
                IN  /\ after.points = before.points \o emitted
                    /\ <<after.x, after.y>> =
                          IF emitted = <<>> THEN <<before.x, before.y>>
                          ELSE emitted[Len(emitted)]
            /\ dec_emitted = dec_states[Len(dec_states)].points

\* A relative move with an implicit line-to, then a relative horizontal and
\* an absolute vertical command of two arguments each.
C24_Witness ==
    /\ dec_pc = "done"
    /\ LET commands == find_commands(dec_path)
       IN  /\ [k \in DOMAIN commands |-> commands[k].cmd_type] = <<"m", "h", "V">>
           /\ Len(commands[1].numbers) = 4
           /\ Len(dec_emitted) = 6

(***************************************************************************)
(* Properties of the group attribution.                                    *)
(***************************************************************************)
\* The id of the nearest group element on the way up from elem (elem
\* included), None when there is no group or that group has no id.
RECURSIVE NearestGroupId(_)
NearestGroupId(elem) ==
    IF elem.tag = "g"
    THEN (IF "id" \in DOMAIN elem THEN elem.id ELSE None)
    ELSE IF "parent" \in DOMAIN elem THEN NearestGroupId(elem.parent)
    ELSE None

\* C25: the group clean_svg stores with an obstacle is the id of the nearest
\* enclosing group element among the path element's ancestors, and null
\* when there is no such group or it has no id; the id of an ancestor that
\* is no group is never stored.
C25_GroupIsNearestEnclosingGroup ==
    [][last_call' = "clean_svg" =>
        LET valid == ValidElements(tree.paths)
            index_of(i) == Cardinality({j \in valid : j <= i})
        IN  \A i \in valid :
                geometries'[index_of(i)].parent_group =
                    NearestGroupId(tree.paths[i].parent)
      ]_vars

(***************************************************************************)
(* Properties of the processor's calls.                                    *)
(***************************************************************************)
\* The latest call of the method raised / returned.
CallRaised(call) == call_result.call = call /\ "raised" \in DOMAIN call_result

CallReturned(call) == call_result.call = call /\ "returned" \in DOMAIN call_result

PointsAndGroups(geoms) ==
    [k \in DOMAIN geoms |-> <<geoms[k].points, geoms[k].parent_group>>]

\* C28: clean_svg called again on a document it has cleaned yields an
\* obstacle list of the same length with the same point sequences and
\* groups in the same order, and leaves every path description as the first
\* call left it; a path element that yields no obstacle keeps the
\* description it had before the call, in either call.
C28_CleanSvgIdempotent ==
    [][/\ (last_call = "clean_svg" /\ last_call' = "clean_svg") =>
            /\ PointsAndGroups(geometries') = PointsAndGroups(geometries)
            /\ tree'.paths = tree.paths
       /\ last_call' = "clean_svg" =>
            \A i \in DOMAIN tree.paths :
                i \notin ValidElements(tree.paths) =>
                    tree'.paths[i].d = tree.paths[i].d
      ]_vars

\* clean_svg has run a second time on a document of two path elements: the
\* first call had cut one description down to its first sub-path, and the
\* other element yields no obstacle.
C28_Witness ==
    /\ last_call = "clean_svg"
    /\ Len(tree.paths) = 2
    /\ Len(geometries) = 1
    /\ geometries[1].original_path = geometries[1].cleaned_path
    /\ \E i \in DOMAIN tree.paths :
        /\ tree.paths[i].d = geometries[1].cleaned_path
        /\ tree.paths[i].d # Flatten(svg_file[i].groups)

====
